---- MODULE Spec2Model ----
(***************************************************************************)
(* Booking lifecycle and ledger engine of rental-girlfriend-backend-js.    *)
(*                                                                         *)
(* The persistent state is the User balances, the Transaction collection,  *)
(* the Booking collection and the Service bookingCount.  Every request     *)
(* handler is an operator from (store, request, environment) to            *)
(* (store, response); the environment carries what the handler cannot      *)
(* decide itself: which storage write fails and in which order two writes  *)
(* issued together by Promise.all land.                                    *)
(*                                                                         *)
(* Amounts are integer currency units, so Math.floor(x * 0.5) is x \div 2  *)
(* and Math.floor(x * 0.1) is x \div 10 for the non-negative x used here.  *)
(***************************************************************************)
EXTENDS Integers, Sequences, FiniteSets, TLC

VARIABLES
  balance,       \* User.balance of every account
  transactions,  \* the Transaction collection, in insertion order
  bookings,      \* the Booking collection: booking id -> document
  bookingCount,  \* Service.bookingCount of every service
  payments,      \* the Payment collection: booking id -> document
  chats,         \* the Chat collection
  reviews,       \* the Review collection: review id -> document
  stats,         \* Service.rating (in hundredths) and reviewCount of every service
  withdrawals,   \* the Withdrawal collection, in insertion order
  res,           \* the response of the last request
  procs          \* the concurrent requests in flight

vars == <<balance, transactions, bookings, bookingCount, payments, chats,
          reviews, stats, withdrawals, res, procs>>

----------------------------------------------------------------------------
(* Bounds *)

MaxBalance == 2      \* credits are not issued beyond this balance
MaxTx == 2           \* length of the Transaction collection (wallet runs)
StartBalance == 2    \* balance of every account when the concurrent run starts
NumProcs == 2        \* concurrent paymentTransaction requests

None == "none"

Accounts == {"c1", "p1"}          \* users that exist in the User collection
GhostId == "ghost"                \* an id no user has

----------------------------------------------------------------------------
(* Transaction documents.  forBooking is not a stored field: it records    *)
(* which booking's updateBooking call created the document.                *)

Tx(customerId, amount, method, type, action, providerId, balanceAfter, note, forBooking) ==
  [customerId |-> customerId, amount |-> amount, method |-> method,
   type |-> type, action |-> action, providerId |-> providerId,
   balanceAfter |-> balanceAfter, note |-> note, forBooking |-> forBooking]

Response(op, status, message) ==
  [op |-> op, status |-> status, message |-> message]

WalletOut(bal, txs, r) == [balance |-> bal, transactions |-> txs, res |-> r]

----------------------------------------------------------------------------
(* Bookings, services and the notes of ledger entries *)

STATUS_ENUM == {"pending", "confirmed", "completed", "cancelled"}
PAYMENT_STATUS_ENUM == {"pending", "paid", "refunded", "partially_refunded"}
CANCELLED_BY_ENUM == {"customer", "provider"}

Absent == -1     \* a numeric field the request body does not carry
Unset == -1      \* refundAmount of a booking that never got one

ServiceIds == {"s1", "s2"}

\* The services on offer: both belong to provider p1; a name is a sequence
\* of characters, and the name of s2 carries parentheses.
Services ==
  [s1 |-> [providerId |-> "p1", name |-> <<"a">>],
   s2 |-> [providerId |-> "p1", name |-> <<"(", "a", ")">>]]

\* The three note templates of updateBooking: a label, " - ", the service
\* name, and for refunds who cancelled.
RefundNote(serviceName, cancelledBy) == <<"refund-label">> \o serviceName \o <<cancelledBy>>
CompensationNote(serviceName) == <<"compensation-label">> \o serviceName
EarningNote(serviceName) == <<"earning-label">> \o serviceName

IsSubSeq(small, big) ==
  \E i \in 0..(Len(big) - Len(small)) :
    \A j \in 1..Len(small) : big[i + j] = small[j]

\* note: {$regex: pattern}.  In a pattern a balanced pair of parentheses
\* is a group, which matches what its content matches; every other
\* character used here matches itself.  The search is unanchored.
RegexFind(pattern, text) ==
  LET literal(c) == c \notin {"(", ")"}
  IN IsSubSeq(SelectSeq(pattern, literal), text)

Store ==
  [bookings |-> bookings, transactions |-> transactions,
   bookingCount |-> bookingCount, payments |-> payments, chats |-> chats]

BookingOut(st, r) == [st |-> st, res |-> r]

\* Mongoose validation of a Booking document on create() and save():
\* min 0 on the amounts and the depositAmount validator.
DepositWithinTotal_Off(doc) == TRUE

DepositWithinTotal(doc) == doc.depositAmount <= doc.totalAmount

ValidBooking(doc) ==
  /\ doc.totalAmount >= 0
  /\ doc.depositAmount >= 0
  /\ DepositWithinTotal(doc)
  /\ doc.refundAmount = Unset \/ doc.refundAmount >= 0

\* Transaction.create validates amount: min 0.01
ValidTransactionAmount(amount) == amount >= 1

canAccessBooking(booking, user) ==
  \/ user.type = "admin"
  \/ booking.customerId = user.id
  \/ booking.providerId = user.id

NewChatId(cs) == Cardinality(cs) + 1

\* the payload of ensureChatForBookingInternal, as ChatModel.create stores it
ChatDoc(cs, id, booking) ==
  [id |-> NewChatId(cs), bookingId |-> id, customerId |-> booking.customerId,
   providerId |-> booking.providerId, messages |-> <<>>]

\* ChatSchema.bookingId is unique: the insert of a second chat of a booking
\* is refused (E11000).  The second definition is the collection without
\* the index.
BookingIdFree_NoIndex(cs, bookingId) == TRUE

BookingIdFree(cs, bookingId) == \A c \in cs : c.bookingId # bookingId

\* ChatModel.create(payload)
ChatCreate(cs, doc) ==
  IF BookingIdFree(cs, doc.bookingId) THEN cs \cup {doc} ELSE cs

\* ensureChatForBookingInternal: find-or-create keyed by bookingId
EnsureChat(cs, id, booking) ==
  IF \E c \in cs : c.bookingId = id
    THEN cs
    ELSE ChatCreate(cs, ChatDoc(cs, id, booking))

NewBookingId(bs) == Cardinality(DOMAIN bs) + 1

CreateBookingOp(st, req, env) ==
  IF req.user.type \notin {"admin", "customer"}
    THEN BookingOut(st, Response("createBooking", 403, "Only customers or admins can create bookings"))
  ELSE IF req.serviceId \notin ServiceIds
    THEN BookingOut(st, Response("createBooking", 404, "Service not found"))
  ELSE
    LET service == Services[req.serviceId]
        customerId == IF req.user.type = "admin" /\ req.customerId # None
                        THEN req.customerId ELSE req.user.id
    IN
    IF service.providerId = customerId
      THEN BookingOut(st, Response("createBooking", 400, "Providers cannot book their own services"))
    ELSE IF req.totalAmount = Absent
      THEN BookingOut(st, Response("createBooking", 400, "totalAmount is required and must be numeric"))
    ELSE IF req.depositAmount = Absent
      THEN BookingOut(st, Response("createBooking", 400, "depositAmount is required and must be numeric"))
    ELSE
      LET doc == [customerId |-> customerId,
                  providerId |-> service.providerId,
                  serviceId |-> req.serviceId,
                  serviceName |-> service.name,
                  totalAmount |-> req.totalAmount,
                  depositAmount |-> req.depositAmount,
                  status |-> IF req.status \in STATUS_ENUM THEN req.status ELSE "pending",
                  paymentStatus |-> IF req.paymentStatus \in PAYMENT_STATUS_ENUM
                                      THEN req.paymentStatus ELSE "pending",
                  cancelledBy |-> None,
                  refundAmount |-> Unset]
          id == NewBookingId(st.bookings)
      IN
      IF ~ValidBooking(doc)
        THEN BookingOut(st, Response("createBooking", 400, "Validation failed"))
      ELSE IF env.fail = "bookingCreate"
        THEN BookingOut(st, Response("createBooking", 500, "Server error"))
      ELSE
        LET created == [b \in DOMAIN st.bookings \cup {id} |->
                          IF b = id THEN doc ELSE st.bookings[b]]
            \* a failure of the chat creation is logged and swallowed
            cs == IF env.fail = "chatCreate" THEN st.chats ELSE EnsureChat(st.chats, id, doc)
        IN BookingOut([st EXCEPT !.bookings = created, !.chats = cs],
                      Response("createBooking", 201, "ok"))

----------------------------------------------------------------------------
(* updateBooking *)

\* The split with the compensation rounded down like the refund, which loses
\* the odd unit of totalAmount.
RefundSplit_BothFloored(totalAmount, cancelledBy) ==
  IF cancelledBy = "provider"
    THEN [refund |-> totalAmount, compensation |-> 0]
  ELSE IF cancelledBy = "customer"
    THEN [refund |-> totalAmount \div 2, compensation |-> totalAmount \div 2]
  ELSE [refund |-> 0, compensation |-> 0]

\* Refund / Payout Policy: who cancelled decides the split of totalAmount.
RefundSplit(totalAmount, cancelledBy) ==
  IF cancelledBy = "provider"
    THEN [refund |-> totalAmount, compensation |-> 0]
  ELSE IF cancelledBy = "customer"
    THEN [refund |-> totalAmount \div 2,
          compensation |-> totalAmount - (totalAmount \div 2)]
  ELSE [refund |-> 0, compensation |-> 0]

\* The earning with the net amount rounded down instead of the commission.
ProviderEarning_NetFloored(totalAmount) == (totalAmount * 9) \div 10

\* providerEarning = totalAmount - Math.floor(totalAmount * 0.1)
ProviderEarning(totalAmount) == totalAmount - (totalAmount \div 10)

\* const alreadyProcessed = booking.refundAmount && booking.refundAmount > 0
AlreadyProcessed(booking) == booking.refundAmount # Unset /\ booking.refundAmount > 0

\* cancelledBy of a booking that becomes cancelled
InferCancelledBy(req) ==
  IF req.cancelledBy \in CANCELLED_BY_ENUM THEN req.cancelledBy
  ELSE IF req.user.type = "provider" THEN "provider"
  ELSE "customer"

\* The in-memory document after the field assignments of the handler.  The
\* first definition leaves cancelledBy alone when the new status is not
\* cancelled.
AssignFields_KeepsCancelledBy(booking, req) ==
  LET numeric == [booking EXCEPT
                    !.totalAmount = IF req.totalAmount # Absent THEN req.totalAmount ELSE @,
                    !.depositAmount = IF req.depositAmount # Absent THEN req.depositAmount ELSE @,
                    !.refundAmount = IF req.refundAmount # Absent THEN req.refundAmount ELSE @]
      withStatus == IF req.status = None THEN numeric
                    ELSE [numeric EXCEPT
                            !.status = req.status,
                            !.cancelledBy = IF req.status = "cancelled"
                                              THEN InferCancelledBy(req) ELSE @]
  IN IF req.paymentStatus = None THEN withStatus
     ELSE [withStatus EXCEPT !.paymentStatus = req.paymentStatus]

\* A handler that also assigned the providerId of the request body.
AssignFields_CopiesProvider(booking, req) ==
  LET numeric == [booking EXCEPT
                    !.totalAmount = IF req.totalAmount # Absent THEN req.totalAmount ELSE @,
                    !.depositAmount = IF req.depositAmount # Absent THEN req.depositAmount ELSE @,
                    !.refundAmount = IF req.refundAmount # Absent THEN req.refundAmount ELSE @,
                    !.providerId = IF "providerId" \in DOMAIN req THEN req.providerId ELSE @]
      withStatus == IF req.status = None THEN numeric
                    ELSE [numeric EXCEPT
                            !.status = req.status,
                            !.cancelledBy = IF req.status = "cancelled"
                                              THEN InferCancelledBy(req) ELSE None]
  IN IF req.paymentStatus = None THEN withStatus
     ELSE [withStatus EXCEPT !.paymentStatus = req.paymentStatus]

AssignFields(booking, req) ==
  LET numeric == [booking EXCEPT
                    !.totalAmount = IF req.totalAmount # Absent THEN req.totalAmount ELSE @,
                    !.depositAmount = IF req.depositAmount # Absent THEN req.depositAmount ELSE @,
                    !.refundAmount = IF req.refundAmount # Absent THEN req.refundAmount ELSE @]
      withStatus == IF req.status = None THEN numeric
                    ELSE [numeric EXCEPT
                            !.status = req.status,
                            !.cancelledBy = IF req.status = "cancelled"
                                              THEN InferCancelledBy(req) ELSE None]
  IN IF req.paymentStatus = None THEN withStatus
     ELSE [withStatus EXCEPT !.paymentStatus = req.paymentStatus]

\* The handler between two writes: the store as written so far, the
\* in-memory booking, and the error that ended the handler, if any.
Ctx(st, booking, error) == [st |-> st, booking |-> booking, error |-> error]

\* "Process refund if booking is cancelled and was paid"
RefundBlock(ctx, id, env) ==
  LET b == ctx.booking
      st == ctx.st
  IN
  IF ~( /\ b.status = "cancelled"
        /\ b.cancelledBy # None
        /\ b.paymentStatus \in {"refunded", "partially_refunded"} )
    THEN ctx
  ELSE IF AlreadyProcessed(b)
    THEN ctx
  ELSE
    LET split == RefundSplit(b.totalAmount, b.cancelledBy)
        b1 == [b EXCEPT !.refundAmount = split.refund]
        refundTx == Tx(b.customerId, split.refund, "refund", "refund", None, None,
                       Absent, RefundNote(b.serviceName, b.cancelledBy), id)
        compTx == Tx(b.providerId, split.compensation, "compensation", "topup", None, None,
                     Absent, CompensationNote(b.serviceName), id)
        \* refund transaction and the Payment record
        afterRefund ==
          IF split.refund <= 0 THEN Ctx(st, b1, None)
          ELSE IF env.fail = "refundTx" THEN Ctx(st, b1, "db")
          ELSE
            LET st1 == [st EXCEPT !.transactions = Append(@, refundTx)] IN
            IF id \in DOMAIN st.payments /\ ~st.payments[id].refunded
              THEN IF env.fail = "paymentSave" THEN Ctx(st1, b1, "db")
                   ELSE Ctx([st1 EXCEPT !.payments[id] =
                               [status |-> b.paymentStatus, refundAmount |-> split.refund,
                                refunded |-> TRUE]],
                            b1, None)
              ELSE Ctx(st1, b1, None)
    IN
    IF afterRefund.error # None THEN afterRefund
    ELSE IF split.compensation <= 0 THEN afterRefund
    ELSE IF env.fail = "compensationTx" THEN Ctx(afterRefund.st, b1, "db")
    ELSE Ctx([afterRefund.st EXCEPT !.transactions = Append(@, compTx)], b1, None)

\* Transaction.findOne({customerId: providerId, type: "topup", note: {$regex: ...}})
ExistingEarning(txs, booking) ==
  \E i \in 1..Len(txs) :
    /\ txs[i].customerId = booking.providerId
    /\ txs[i].type = "topup"
    /\ RegexFind(EarningNote(booking.serviceName), txs[i].note)

\* Booking.countDocuments({serviceId, status: "completed"}) on the stored bookings
CompletedBookingsCount(bs, serviceId) ==
  Cardinality({x \in DOMAIN bs : bs[x].serviceId = serviceId /\ bs[x].status = "completed"})

\* "Process provider earning if booking is completed and was paid"
EarningBlock(ctx, id, env) ==
  LET b == ctx.booking
      st == ctx.st
  IN
  IF ~(b.status = "completed" /\ b.paymentStatus = "paid") THEN ctx
  ELSE
    LET earning == ProviderEarning(b.totalAmount)
        earningTx == Tx(b.providerId, earning, "earning", "topup", None, None,
                        Absent, EarningNote(b.serviceName), id)
        afterEarning ==
          IF ExistingEarning(st.transactions, b) THEN ctx
          ELSE IF ~ValidTransactionAmount(earning) THEN Ctx(st, b, "validation")
          ELSE IF env.fail = "earningTx" THEN Ctx(st, b, "db")
          ELSE Ctx([st EXCEPT !.transactions = Append(@, earningTx)], b, None)
        count == CompletedBookingsCount(st.bookings, b.serviceId)
    IN
    IF afterEarning.error # None THEN afterEarning
    ELSE IF count = st.bookingCount[b.serviceId] THEN afterEarning
    ELSE IF env.fail = "serviceSave" THEN Ctx(afterEarning.st, b, "db")
    ELSE Ctx([afterEarning.st EXCEPT !.bookingCount[b.serviceId] = count], b, None)

\* The awaited writes of updateBooking run inside the try of the handler:
\* a rejected write leaves for the catch and nothing after it runs.  The
\* first definition is a handler that catches the rejection at the write
\* and carries on.
Thrown_Swallowed(error) == FALSE

Thrown(error) == error # None

ErrorResponse(error) ==
  IF error = "validation" THEN Response("updateBooking", 400, "Validation failed")
  ELSE Response("updateBooking", 500, "Server error")

\* if (req.body.status !== undefined) if (!STATUS_ENUM.includes(...)) return 400
InvalidStatus(status) == status # None /\ status \notin STATUS_ENUM

\* the same test on paymentStatus; the first definition lets every value pass
InvalidPaymentStatus_Off(paymentStatus) == FALSE

InvalidPaymentStatus(paymentStatus) ==
  paymentStatus # None /\ paymentStatus \notin PAYMENT_STATUS_ENUM

UpdateBookingOp(st, req, env) ==
  IF req.id \notin DOMAIN st.bookings
    THEN BookingOut(st, Response("updateBooking", 404, "Booking not found"))
  ELSE IF ~canAccessBooking(st.bookings[req.id], req.user)
    THEN BookingOut(st, Response("updateBooking", 403, "Forbidden"))
  ELSE IF InvalidStatus(req.status)
    THEN BookingOut(st, Response("updateBooking", 400, "Invalid status value"))
  ELSE IF InvalidPaymentStatus(req.paymentStatus)
    THEN BookingOut(st, Response("updateBooking", 400, "Invalid paymentStatus value"))
  ELSE
    LET assigned == AssignFields(st.bookings[req.id], req)
        afterRefund == RefundBlock(Ctx(st, assigned, None), req.id, env)
        afterEarning == IF Thrown(afterRefund.error) THEN afterRefund
                        ELSE EarningBlock(afterRefund, req.id, env)
    IN
    IF Thrown(afterEarning.error)
      THEN BookingOut(afterEarning.st, ErrorResponse(afterEarning.error))
    ELSE IF ~ValidBooking(afterEarning.booking)
      THEN BookingOut(afterEarning.st, ErrorResponse("validation"))
    ELSE IF env.fail = "bookingSave"
      THEN BookingOut(afterEarning.st, ErrorResponse("db"))
    ELSE BookingOut([afterEarning.st EXCEPT !.bookings[req.id] = afterEarning.booking],
                    Response("updateBooking", 200, "ok"))

----------------------------------------------------------------------------
(* Wallet Transfer Engine *)

\* customerId of a wallet request: admins may name the account, everybody
\* else acts on their own.
TargetCustomer(req) ==
  IF req.user.type = "admin" /\ req.customerId # None
    THEN req.customerId
    ELSE req.user.id

\* The guard of both wallet handlers: if (nextBalance < 0) return 400.
InsufficientBalance_Off(nextBalance) == FALSE

InsufficientBalance(nextBalance) == nextBalance < 0

\* performTransaction(req, res, action)
PerformTransaction(bal, txs, req, action, env) ==
  LET amount == req.amount
      customerId == TargetCustomer(req)
  IN
  IF amount <= 0
    THEN WalletOut(bal, txs, Response("transaction", 400, "amount must be greater than 0"))
  ELSE IF customerId \notin Accounts
    THEN WalletOut(bal, txs, Response("transaction", 404, "User not found"))
  ELSE
    LET delta == IF action = "debit" THEN -amount ELSE amount
        nextBalance == bal[customerId] + delta
    IN
    IF InsufficientBalance(nextBalance)
      THEN WalletOut(bal, txs, Response("transaction", 400, "Insufficient balance"))
    ELSE IF env.fail = "userSave"
      THEN WalletOut(bal, txs, Response("transaction", 500, "Unable to create transaction"))
    ELSE
      LET saved == [bal EXCEPT ![customerId] = nextBalance]
          payload == Tx(customerId, amount, "topup", None, action, None,
                        nextBalance, <<>>, None)
      IN
      IF env.fail = "txCreate"
        THEN WalletOut(saved, txs, Response("transaction", 500, "Unable to create transaction"))
        ELSE WalletOut(saved, Append(txs, payload), Response("transaction", 201, "ok"))

\* createTransaction = performTransaction(req, res, 'credit')
CreateTransactionOp(bal, txs, req, env) ==
  PerformTransaction(bal, txs, req, "credit", env)

\* await Promise.all([customer.save(), provider.save()]): both writes are
\* issued; each lands unless it fails; when both documents are the same
\* user the write that lands last is the one that stays.
SaveBoth(bal, customerId, customerBalance, providerId, providerBalance, env) ==
  LET cOk == env.fail \notin {"customerSave", "bothSaves"}
      pOk == env.fail \notin {"providerSave", "bothSaves"}
      afterC(b) == IF cOk THEN [b EXCEPT ![customerId] = customerBalance] ELSE b
      afterP(b) == IF pOk THEN [b EXCEPT ![providerId] = providerBalance] ELSE b
  IN IF env.order = "customerFirst" THEN afterP(afterC(bal)) ELSE afterC(afterP(bal))

PaymentTransactionOp(bal, txs, req, env) ==
  LET amount == req.amount
      providerId == req.providerId
      customerId == TargetCustomer(req)
  IN
  IF amount <= 0
    THEN WalletOut(bal, txs, Response("payment", 400, "amount must be greater than 0"))
  ELSE IF providerId = None
    THEN WalletOut(bal, txs, Response("payment", 400, "providerId is required"))
  ELSE IF customerId \notin Accounts
    THEN WalletOut(bal, txs, Response("payment", 404, "Customer not found"))
  ELSE IF providerId \notin Accounts
    THEN WalletOut(bal, txs, Response("payment", 404, "Provider not found"))
  ELSE
    LET nextCustomerBalance == bal[customerId] - amount
        nextProviderBalance == bal[providerId] + amount
    IN
    IF InsufficientBalance(nextCustomerBalance)
      THEN WalletOut(bal, txs, Response("payment", 400, "Insufficient balance"))
    ELSE
      LET saved == SaveBoth(bal, customerId, nextCustomerBalance,
                            providerId, nextProviderBalance, env)
          payload == Tx(customerId, amount, "payment", None, "debit", providerId,
                        nextCustomerBalance, <<>>, None)
      IN
      IF env.fail \in {"customerSave", "providerSave", "bothSaves", "txCreate"}
        THEN WalletOut(saved, txs, Response("payment", 500, "Unable to process payment"))
        ELSE WalletOut(saved, Append(txs, payload), Response("payment", 201, "ok"))

----------------------------------------------------------------------------
(* Requests of the wallet runs *)

Callers == {[id |-> "c1", type |-> "customer"], [id |-> "adm", type |-> "admin"]}

WalletAmounts == {0, 1, 2}

\* An admin request always names the account it acts on.
WalletRequests ==
  {req \in [user : Callers, amount : WalletAmounts,
            customerId : Accounts \cup {GhostId, None},
            providerId : Accounts \cup {GhostId, None}] :
     /\ req.user.type = "admin" => req.customerId # None
     /\ req.user.type # "admin" => req.customerId = None}

CreditEnvs == [fail : {"none", "userSave", "txCreate"}, order : {"customerFirst"}]

PaymentEnvs ==
  [fail : {"none", "customerSave", "providerSave", "bothSaves", "txCreate"},
   order : {"customerFirst", "providerFirst"}]

NoFail == [fail |-> "none", order |-> "customerFirst"]

\* The environments that can make a difference to a request: a request the
\* handler rejects before its first write has one outcome, and the order of
\* the two saves shows only when both write the same user.
CreditEnvsFor(req) ==
  IF CreateTransactionOp(balance, transactions, req, NoFail).res.status = 201
    THEN CreditEnvs ELSE {NoFail}

PaymentEnvsFor(req) ==
  IF PaymentTransactionOp(balance, transactions, req, NoFail).res.status # 201
    THEN {NoFail}
    ELSE {env \in PaymentEnvs :
            env.order = "providerFirst" => TargetCustomer(req) = req.providerId}

InitRes == Response("none", 0, "none")

WalletFrame ==
  UNCHANGED <<bookings, bookingCount, payments, chats, reviews, stats, withdrawals, procs>>

InitCommon ==
  /\ transactions = <<>>
  /\ bookings = << >>
  /\ bookingCount = [s \in ServiceIds |-> 0]
  /\ payments = << >>
  /\ chats = {}
  /\ reviews = << >>
  /\ stats = [s \in ServiceIds |-> [rating |-> 0, reviewCount |-> 0]]
  /\ withdrawals = <<>>
  /\ res = InitRes
  /\ procs = << >>

InitWallet ==
  /\ InitCommon
  /\ balance = [u \in Accounts |-> 0]

CreateTransaction ==
  \E req \in {r \in WalletRequests : r.providerId = None} :
   \E env \in CreditEnvsFor(req) :
    LET out == CreateTransactionOp(balance, transactions, req, env) IN
    /\ Len(out.transactions) <= MaxTx
    /\ \A u \in Accounts : out.balance[u] <= MaxBalance
    /\ balance' = out.balance
    /\ transactions' = out.transactions
    /\ res' = out.res
    /\ WalletFrame

PaymentTransaction ==
  \E req \in WalletRequests :
   \E env \in PaymentEnvsFor(req) :
    LET out == PaymentTransactionOp(balance, transactions, req, env) IN
    /\ Len(out.transactions) <= MaxTx
    /\ \A u \in Accounts : out.balance[u] <= MaxBalance
    /\ balance' = out.balance
    /\ transactions' = out.transactions
    /\ res' = out.res
    /\ WalletFrame

NextWallet == CreateTransaction \/ PaymentTransaction

SpecWallet == InitWallet /\ [][NextWallet]_vars

----------------------------------------------------------------------------
(* Concurrent paymentTransaction requests.  A request runs between its      *)
(* awaits: the two findById reads of Promise.all, the synchronous balance   *)
(* check, the two save writes of Promise.all, Transaction.create.           *)

Procs == 1..NumProcs

ConcAmounts == {1, 2}

\* c1 pays p1, or an admin makes p1 pay c1.
ConcRequests ==
  {req \in WalletRequests :
     /\ req.amount \in ConcAmounts
     /\ \/ req.user.id = "c1" /\ req.providerId = "p1"
        \/ req.user.type = "admin" /\ req.customerId = "p1" /\ req.providerId = "c1"}

Unread == -1

IdleProc ==
  [pc |-> "idle", req |-> None, customerBalance |-> Unread, providerBalance |-> Unread,
   customerSaved |-> FALSE, providerSaved |-> FALSE, status |-> 0]

InitConc ==
  /\ transactions = <<>>
  /\ bookings = << >>
  /\ bookingCount = [s \in ServiceIds |-> 0]
  /\ payments = << >>
  /\ chats = {}
  /\ reviews = << >>
  /\ stats = [s \in ServiceIds |-> [rating |-> 0, reviewCount |-> 0]]
  /\ withdrawals = <<>>
  /\ res = InitRes
  /\ balance = [u \in Accounts |-> StartBalance]
  /\ procs = [p \in Procs |-> IdleProc]

ConcFrame ==
  UNCHANGED <<bookings, bookingCount, payments, chats, reviews, stats, withdrawals, res>>

\* lines 249-262: validation passes, both reads are issued.
BeginPayment(p) ==
  /\ procs[p].pc = "idle"
  /\ \E req \in ConcRequests :
       procs' = [procs EXCEPT ![p] = [IdleProc EXCEPT !.pc = "find", !.req = req]]
  /\ UNCHANGED <<balance, transactions>>
  /\ ConcFrame

\* findUserById(customerId) resolves
FindCustomer(p) ==
  /\ procs[p].pc = "find"
  /\ procs[p].customerBalance = Unread
  /\ procs' = [procs EXCEPT ![p].customerBalance = balance[TargetCustomer(procs[p].req)]]
  /\ UNCHANGED <<balance, transactions>>
  /\ ConcFrame

\* findUserById(providerId) resolves
FindProvider(p) ==
  /\ procs[p].pc = "find"
  /\ procs[p].providerBalance = Unread
  /\ procs' = [procs EXCEPT ![p].providerBalance = balance[procs[p].req.providerId]]
  /\ UNCHANGED <<balance, transactions>>
  /\ ConcFrame

\* lines 277-285: the check on the balance that was read, then both
\* documents get their new balance and both saves are issued.
CheckBalance(p) ==
  /\ procs[p].pc = "find"
  /\ procs[p].customerBalance # Unread
  /\ procs[p].providerBalance # Unread
  /\ LET nextCustomerBalance == procs[p].customerBalance - procs[p].req.amount IN
     IF InsufficientBalance(nextCustomerBalance)
       THEN procs' = [procs EXCEPT ![p].pc = "done", ![p].status = 400]
       ELSE procs' = [procs EXCEPT ![p].pc = "save",
                                   ![p].customerBalance = nextCustomerBalance,
                                   ![p].providerBalance = @ + procs[p].req.amount]
  /\ UNCHANGED <<balance, transactions>>
  /\ ConcFrame

\* customer.save() lands
SaveCustomer(p) ==
  /\ procs[p].pc = "save"
  /\ ~procs[p].customerSaved
  /\ balance' = [balance EXCEPT ![TargetCustomer(procs[p].req)] = procs[p].customerBalance]
  /\ procs' = [procs EXCEPT ![p].customerSaved = TRUE]
  /\ UNCHANGED transactions
  /\ ConcFrame

\* provider.save() lands
SaveProvider(p) ==
  /\ procs[p].pc = "save"
  /\ ~procs[p].providerSaved
  /\ balance' = [balance EXCEPT ![procs[p].req.providerId] = procs[p].providerBalance]
  /\ procs' = [procs EXCEPT ![p].providerSaved = TRUE]
  /\ UNCHANGED transactions
  /\ ConcFrame

\* lines 287-310: the record is created and the request answered 201.
RecordPayment(p) ==
  /\ procs[p].pc = "save"
  /\ procs[p].customerSaved
  /\ procs[p].providerSaved
  /\ transactions' =
       Append(transactions,
              Tx(TargetCustomer(procs[p].req), procs[p].req.amount, "payment", None,
                 "debit", procs[p].req.providerId, procs[p].customerBalance, <<>>, None))
  /\ procs' = [procs EXCEPT ![p].pc = "done", ![p].status = 201]
  /\ UNCHANGED balance
  /\ ConcFrame

NextConc ==
  \E p \in Procs :
    \/ BeginPayment(p)
    \/ FindCustomer(p)
    \/ FindProvider(p)
    \/ CheckBalance(p)
    \/ SaveCustomer(p)
    \/ SaveProvider(p)
    \/ RecordPayment(p)

SpecWalletConc == InitConc /\ [][NextConc]_vars

----------------------------------------------------------------------------
(* Sequential booking runs *)

MaxLedger == 3       \* length of the Transaction collection (booking runs)

Customer1 == [id |-> "c1", type |-> "customer"]
Customer2 == [id |-> "c2", type |-> "customer"]
Provider1 == [id |-> "p1", type |-> "provider"]
Admin == [id |-> "adm", type |-> "admin"]

GhostBooking == 99   \* an id no booking has

CreateRequest(user, customerId, serviceId, totalAmount, depositAmount, status, paymentStatus) ==
  [user |-> user, customerId |-> customerId, serviceId |-> serviceId,
   totalAmount |-> totalAmount, depositAmount |-> depositAmount,
   status |-> status, paymentStatus |-> paymentStatus]

UpdateRequest(user, id, status, paymentStatus, cancelledBy, totalAmount, depositAmount, refundAmount) ==
  [user |-> user, id |-> id, status |-> status, paymentStatus |-> paymentStatus,
   cancelledBy |-> cancelledBy, totalAmount |-> totalAmount,
   depositAmount |-> depositAmount, refundAmount |-> refundAmount]

NoFailure == [fail |-> "none"]

UpdateFailures ==
  {"refundTx", "paymentSave", "compensationTx", "earningTx", "serviceSave", "bookingSave"}

\* The failures that change the outcome of a request in the current store:
\* a write the handler never reaches cannot fail.
UpdateEnvsFor(req, fails) ==
  {NoFailure} \cup
  {env \in [fail : fails] :
     UpdateBookingOp(Store, req, env) # UpdateBookingOp(Store, req, NoFailure)}

CreateEnvsFor(req, fails) ==
  {NoFailure} \cup
  {env \in [fail : fails] :
     CreateBookingOp(Store, req, env) # CreateBookingOp(Store, req, NoFailure)}

InitBooking ==
  /\ InitCommon
  /\ balance = [u \in Accounts |-> 0]

BookingFrame == UNCHANGED <<balance, reviews, stats, withdrawals, procs>>

Commit(out) ==
  /\ Len(out.st.transactions) <= MaxLedger
  /\ bookings' = out.st.bookings
  /\ transactions' = out.st.transactions
  /\ bookingCount' = out.st.bookingCount
  /\ payments' = out.st.payments
  /\ chats' = out.st.chats
  /\ res' = out.res
  /\ BookingFrame

CreateBookingFrom(requests, fails, limit) ==
  /\ Cardinality(DOMAIN bookings) < limit
  /\ \E req \in requests :
       \E env \in CreateEnvsFor(req, fails) :
         Commit(CreateBookingOp(Store, req, env))

UpdateBookingFrom(requests, fails) ==
  \E req \in requests :
    \E env \in UpdateEnvsFor(req, fails) :
      Commit(UpdateBookingOp(Store, req, env))

(* One booking, its status and payment status changed by its participants *)

LedgerAmounts == {0, 1, 15}

\* Customer c1 books s1 for any of the amounts, or s2.
LedgerCreateRequests ==
  {CreateRequest(Customer1, None, "s1", t, 0, None, None) : t \in LedgerAmounts}
  \cup {CreateRequest(Customer1, None, "s2", 15, 0, None, None),
        CreateRequest(Provider1, None, "s1", 15, 0, None, None)}

\* The customer or the provider sets status and paymentStatus; when the
\* booking becomes cancelled, cancelledBy is inferred from who asks.
LedgerUpdateRequests ==
  {UpdateRequest(u, 1, s, p, None, Absent, Absent, Absent) :
     u \in {Customer1, Provider1},
     s \in STATUS_ENUM \cup {None},
     p \in PAYMENT_STATUS_ENUM \cup {None}}
  \cup {UpdateRequest(Admin, 1, "cancelled", "refunded", "provider", Absent, Absent, Absent)}

CreateBooking == CreateBookingFrom(LedgerCreateRequests, {}, 1)

UpdateBooking == UpdateBookingFrom(LedgerUpdateRequests, {})

NextBooking == CreateBooking \/ UpdateBooking

SpecBooking == InitBooking /\ [][NextBooking]_vars

(* One booking whose ledger writes may fail *)

LedgerFailures == {"refundTx", "compensationTx", "earningTx"}

FailingUpdateRequests ==
  {UpdateRequest(u, 1, s, p, None, Absent, Absent, Absent) :
     u \in {Customer1, Provider1},
     s \in {None, "completed", "cancelled"},
     p \in {None, "paid", "refunded", "partially_refunded"}}

CreateBookingLedger == CreateBookingFrom(LedgerCreateRequests, {}, 1)

UpdateBookingLedger == UpdateBookingFrom(FailingUpdateRequests, LedgerFailures)

NextBookingLedger == CreateBookingLedger \/ UpdateBookingLedger

SpecBookingLedger == InitBooking /\ [][NextBookingLedger]_vars

(* One booking whose refundAmount is sent in the request body *)

RefundAmounts == {0, 3}

RefundCreateRequests ==
  {CreateRequest(Customer1, None, "s1", t, 0, None, None) : t \in {1, 15}}

RefundUpdateRequests ==
  {UpdateRequest(u, 1, s, p, None, Absent, Absent, r) :
     u \in {Customer1, Provider1},
     s \in {None, "confirmed", "cancelled"},
     p \in {None, "paid", "refunded"},
     r \in RefundAmounts \cup {Absent}}

CreateBookingRefund == CreateBookingFrom(RefundCreateRequests, {}, 1)

UpdateBookingRefund == UpdateBookingFrom(RefundUpdateRequests, {})

NextBookingRefund == CreateBookingRefund \/ UpdateBookingRefund

SpecBookingRefund == InitBooking /\ [][NextBookingRefund]_vars

(* One booking, updated with bodies that name the fields of its identity *)

BodyIdentityFields ==
  [providerId |-> "c2", customerId |-> "c2", serviceId |-> "s2", serviceName |-> <<"z">>]

BodyUpdateRequests ==
  {UpdateRequest(u, 1, s, p, None, Absent, Absent, Absent) @@ BodyIdentityFields :
     u \in {Customer1, Provider1, Admin},
     s \in {None, "confirmed", "completed", "cancelled"},
     p \in {None, "paid", "refunded"}}

CreateBookingBody == CreateBookingFrom(LedgerCreateRequests, {}, 1)

UpdateBookingBody == UpdateBookingFrom(BodyUpdateRequests, {})

NextBookingBody == CreateBookingBody \/ UpdateBookingBody

SpecBookingBody == InitBooking /\ [][NextBookingBody]_vars

(* Two bookings of the same service of provider p1 *)

MaxBookings == 2

PairCreateRequests ==
  {CreateRequest(Customer1, None, "s1", t, 0, None, None) : t \in {15, 20}}

PairUpdateRequests ==
  {UpdateRequest(Customer1, id, s, p, None, Absent, Absent, Absent) :
     id \in 1..MaxBookings,
     s \in {None, "completed", "cancelled"},
     p \in {None, "paid", "refunded"}}

CreateBookingPair == CreateBookingFrom(PairCreateRequests, {}, MaxBookings)

UpdateBookingPair == UpdateBookingFrom(PairUpdateRequests, {})

NextBookingPair == CreateBookingPair \/ UpdateBookingPair

SpecBookingPair == InitBooking /\ [][NextBookingPair]_vars

(* One booking whose amounts are edited *)

FieldAmounts == {0, 1, 3}

FieldCreateRequests ==
  {CreateRequest(Customer1, None, "s1", t, d, None, None) :
     t \in FieldAmounts \cup {Absent}, d \in FieldAmounts \cup {Absent}}

FieldUpdateRequests ==
  {UpdateRequest(Customer1, 1, s, p, None, t, d, Absent) :
     s \in {None, "completed", "bogus"},
     p \in {None, "paid"},
     t \in FieldAmounts \cup {Absent},
     d \in FieldAmounts \cup {Absent}}
  \cup {UpdateRequest(Customer2, 1, None, None, None, 1, 3, Absent),
        UpdateRequest(Customer1, GhostBooking, None, None, None, 1, 3, Absent)}
  \cup {UpdateRequest(Customer1, 1, s, "bogus", None, t, 1, Absent) :
          s \in {None, "completed"}, t \in {3, Absent}}

FieldFailures == {"earningTx", "bookingSave"}

CreateBookingFields == CreateBookingFrom(FieldCreateRequests, {"bookingCreate"}, 1)

UpdateBookingFields == UpdateBookingFrom(FieldUpdateRequests, FieldFailures)

NextBookingFields == CreateBookingFields \/ UpdateBookingFields

SpecBookingFields == InitBooking /\ [][NextBookingFields]_vars

----------------------------------------------------------------------------
(* Reviews and the aggregate rating of a service *)

ReviewStore == [reviews |-> reviews, stats |-> stats, bookings |-> bookings]

ReviewOut(st, r) == [st |-> st, res |-> r]

\* ReviewSchema.rating: min 0, max 5
ValidRating(rating) == rating >= 0 /\ rating <= 5

\* ReviewSchema.index({serviceId: 1, customerId: 1}, {unique: true}): the
\* insert is refused when a review of the pair is stored.  The second
\* definition is the collection without the index.
ReviewPairFree_NoIndex(rs, serviceId, customerId) == TRUE

ReviewPairFree(rs, serviceId, customerId) ==
  \A id \in DOMAIN rs :
    ~(rs[id].serviceId = serviceId /\ rs[id].customerId = customerId)

RECURSIVE SumRatings(_, _)
SumRatings(rs, ids) ==
  IF ids = {} THEN 0
  ELSE LET id == CHOOSE x \in ids : TRUE
       IN rs[id].rating + SumRatings(rs, ids \ {id})

\* Number(avgRating.toFixed(2)), kept in hundredths: the mean of sum / n
\* rounded to the nearest hundredth, a tie going up.
\* The second definition cuts the mean off instead of rounding it.
AvgRating_Truncated(sum, n) == (100 * sum) \div n

AvgRating(sum, n) == (200 * sum + n) \div (2 * n)

\* updateServiceReviewStats(serviceId): errors are logged and swallowed
UpdateServiceReviewStats(rs, sts, serviceId, env) ==
  LET ids == {id \in DOMAIN rs : rs[id].serviceId = serviceId}
      count == Cardinality(ids)
      avg == IF count > 0 THEN AvgRating(SumRatings(rs, ids), count) ELSE 0
  IN IF serviceId \notin ServiceIds \/ env.fail = "stats"
       THEN sts
       ELSE [sts EXCEPT ![serviceId] = [rating |-> avg, reviewCount |-> count]]

NewReviewId(rs) ==
  IF DOMAIN rs = {} THEN 1
  ELSE (CHOOSE m \in DOMAIN rs : \A x \in DOMAIN rs : x <= m) + 1

Put(f, k, v) == [x \in DOMAIN f \cup {k} |-> IF x = k THEN v ELSE f[x]]

Drop(f, k) == [x \in DOMAIN f \ {k} |-> f[x]]

CreateReviewOp(st, req, env) ==
  LET Fail(status, message) == ReviewOut(st, Response("createReview", status, message)) IN
  IF req.user.type \notin {"customer", "admin"}
    THEN Fail(403, "Only customers or admins can create reviews")
  ELSE IF req.bookingId = Absent
    THEN Fail(400, "bookingId is required")
  ELSE IF req.serviceId \notin ServiceIds
    THEN Fail(404, "Service not found")
  ELSE IF req.bookingId \notin DOMAIN st.bookings
    THEN Fail(404, "Booking not found")
  ELSE
    LET booking == st.bookings[req.bookingId] IN
    IF booking.serviceId # req.serviceId
      THEN Fail(400, "bookingId does not belong to the provided serviceId")
    ELSE IF req.user.type # "admin" /\ booking.customerId # req.user.id
      THEN Fail(403, "You can only review your own bookings")
    ELSE IF req.user.type = "admin" /\ req.customerId # None
            /\ req.customerId # booking.customerId
      THEN Fail(400, "customerId does not match booking")
    ELSE IF req.rating = Absent
      THEN Fail(400, "rating is required and must be numeric")
    ELSE IF ~ValidRating(req.rating)
      THEN Fail(400, "Validation failed")
    ELSE IF ~ReviewPairFree(st.reviews, booking.serviceId, booking.customerId)
      THEN Fail(409, "You have already reviewed this service")
    ELSE IF env.fail = "reviewCreate"
      THEN Fail(500, "Server error")
    ELSE
      LET review == [serviceId |-> booking.serviceId, bookingId |-> req.bookingId,
                     customerId |-> booking.customerId, rating |-> req.rating]
          rs == Put(st.reviews, NewReviewId(st.reviews), review)
      IN ReviewOut([st EXCEPT !.reviews = rs,
                              !.stats = UpdateServiceReviewStats(rs, st.stats,
                                                                 review.serviceId, env)],
                   Response("createReview", 201, "ok"))

UpdateReviewOp(st, req, env) ==
  LET Fail(status, message) == ReviewOut(st, Response("updateReview", status, message)) IN
  IF req.id \notin DOMAIN st.reviews
    THEN Fail(404, "Review not found")
  ELSE
    LET review == st.reviews[req.id] IN
    IF req.user.type # "admin" /\ review.customerId # req.user.id
      THEN Fail(403, "Forbidden")
    ELSE
      LET shouldUpdateStats == req.rating # Absent
          doc == IF shouldUpdateStats THEN [review EXCEPT !.rating = req.rating] ELSE review
      IN
      IF ~ValidRating(doc.rating)
        THEN Fail(400, "Validation failed")
      ELSE IF env.fail = "reviewSave"
        THEN Fail(500, "Server error")
      ELSE
        LET rs == [st.reviews EXCEPT ![req.id] = doc] IN
        ReviewOut([st EXCEPT !.reviews = rs,
                             !.stats = IF shouldUpdateStats
                                         THEN UpdateServiceReviewStats(rs, st.stats,
                                                                       doc.serviceId, env)
                                         ELSE st.stats],
                  Response("updateReview", 200, "ok"))

DeleteReviewOp(st, req, env) ==
  LET Fail(status, message) == ReviewOut(st, Response("deleteReview", status, message)) IN
  IF req.id \notin DOMAIN st.reviews
    THEN Fail(404, "Review not found")
  ELSE
    LET review == st.reviews[req.id] IN
    IF req.user.type # "admin" /\ review.customerId # req.user.id
      THEN Fail(403, "Forbidden")
    ELSE IF env.fail = "reviewDelete"
      THEN Fail(500, "Server error")
    ELSE
      LET rs == Drop(st.reviews, req.id) IN
      ReviewOut([st EXCEPT !.reviews = rs,
                           !.stats = UpdateServiceReviewStats(rs, st.stats,
                                                              review.serviceId, env)],
                Response("deleteReview", 200, "Review deleted"))

(* Reviews of the bookings of up to three customers *)

MaxReviewBookings == 3

ReviewBookingRequests ==
  {CreateRequest(Customer1, None, "s1", 15, 0, None, None),
   CreateRequest(Customer2, None, "s1", 15, 0, None, None),
   CreateRequest(Admin, "c3", "s1", 15, 0, None, None)}

Ratings == {4, 5}

ReviewCreateRequests ==
  [user : {Customer1, Customer2, Admin},
   serviceId : {"s1"},
   bookingId : 1..MaxReviewBookings,
   customerId : {None},
   rating : Ratings \cup {Absent, 6}]
  \cup {[user |-> Admin, serviceId |-> "s1", bookingId |-> b, customerId |-> "c1",
         rating |-> 5] : b \in {Absent, 1, 2}}
  \cup {[user |-> u, serviceId |-> s, bookingId |-> 1, customerId |-> None,
         rating |-> 5] : u \in {Customer1, Provider1}, s \in {"s2", "ghost"}}

ReviewUpdateRequests ==
  [user : {Customer1, Customer2, Admin}, id : 1..MaxReviewBookings,
   rating : Ratings \cup {Absent, 6}]

ReviewDeleteRequests ==
  [user : {Customer1, Customer2, Admin}, id : 1..MaxReviewBookings]

ReviewFrame ==
  UNCHANGED <<balance, transactions, bookings, bookingCount, payments, chats,
              withdrawals, procs>>

ReviewCommit(out) ==
  /\ reviews' = out.st.reviews
  /\ stats' = out.st.stats
  /\ res' = out.res
  /\ ReviewFrame

CreateBookingReviewed == CreateBookingFrom(ReviewBookingRequests, {}, MaxReviewBookings)

CreateReview ==
  \E req \in ReviewCreateRequests : ReviewCommit(CreateReviewOp(ReviewStore, req, NoFailure))

UpdateReview ==
  \E req \in ReviewUpdateRequests : ReviewCommit(UpdateReviewOp(ReviewStore, req, NoFailure))

DeleteReview ==
  \E req \in ReviewDeleteRequests : ReviewCommit(DeleteReviewOp(ReviewStore, req, NoFailure))

NextReview == CreateBookingReviewed \/ CreateReview \/ UpdateReview \/ DeleteReview

SpecReview == InitBooking /\ [][NextReview]_vars

(* Concurrent review requests on service s1.  A request runs between its   *)
(* awaits: the write of the review, the Review.aggregate of                *)
(* updateServiceReviewStats, its Service.findByIdAndUpdate.                *)

NoStats == [rating |-> 0, reviewCount |-> 0]

IdleReview == [pc |-> "idle", serviceId |-> None, computed |-> NoStats]

\* the write of the review has landed, the stats are still to be computed
StatsPending == [fail |-> "stats"]

InitReviewConc ==
  /\ transactions = <<>>
  /\ bookings = << >>
  /\ bookingCount = [s \in ServiceIds |-> 0]
  /\ payments = << >>
  /\ chats = {}
  /\ reviews = << >>
  /\ stats = [s \in ServiceIds |-> NoStats]
  /\ withdrawals = <<>>
  /\ res = InitRes
  /\ balance = [u \in Accounts |-> 0]
  /\ procs = [p \in Procs |-> IdleReview]

ConcReviewBookingRequests ==
  {CreateRequest(Customer1, None, "s1", 15, 0, None, None),
   CreateRequest(Customer2, None, "s1", 15, 0, None, None)}

ConcReviewCreateRequests ==
  [user : {Customer1, Customer2}, serviceId : {"s1"}, bookingId : 1..2,
   customerId : {None}, rating : Ratings]

ConcReviewUpdateRequests == [user : {Customer1, Customer2}, id : 1..2, rating : Ratings]

ConcReviewDeleteRequests == [user : {Customer1, Customer2}, id : 1..2]

ReviewConcFrame ==
  UNCHANGED <<balance, transactions, bookings, bookingCount, payments, chats,
              withdrawals, res>>

CreateBookingReviewConc == CreateBookingFrom(ConcReviewBookingRequests, {}, 2)

\* createReview up to Review.create
BeginCreateReview(p) ==
  /\ procs[p].pc = "idle"
  /\ \E req \in ConcReviewCreateRequests :
       LET out == CreateReviewOp(ReviewStore, req, StatsPending) IN
       /\ out.res.status = 201
       /\ reviews' = out.st.reviews
       /\ procs' = [procs EXCEPT ![p] = [IdleReview EXCEPT !.pc = "aggregate",
                                                           !.serviceId = req.serviceId]]
  /\ UNCHANGED stats
  /\ ReviewConcFrame

\* updateReview with a rating, up to review.save()
BeginUpdateReview(p) ==
  /\ procs[p].pc = "idle"
  /\ \E req \in ConcReviewUpdateRequests :
       LET out == UpdateReviewOp(ReviewStore, req, StatsPending) IN
       /\ out.res.status = 200
       /\ reviews' = out.st.reviews
       /\ procs' = [procs EXCEPT ![p] = [IdleReview EXCEPT !.pc = "aggregate",
                                           !.serviceId = reviews[req.id].serviceId]]
  /\ UNCHANGED stats
  /\ ReviewConcFrame

\* deleteReview up to review.deleteOne()
BeginDeleteReview(p) ==
  /\ procs[p].pc = "idle"
  /\ \E req \in ConcReviewDeleteRequests :
       LET out == DeleteReviewOp(ReviewStore, req, StatsPending) IN
       /\ out.res.status = 200
       /\ reviews' = out.st.reviews
       /\ procs' = [procs EXCEPT ![p] = [IdleReview EXCEPT !.pc = "aggregate",
                                           !.serviceId = reviews[req.id].serviceId]]
  /\ UNCHANGED stats
  /\ ReviewConcFrame

\* const stats = await Review.aggregate([...]); avg and count are computed
AggregateReviews(p) ==
  /\ procs[p].pc = "aggregate"
  /\ LET s == procs[p].serviceId IN
     procs' = [procs EXCEPT ![p].pc = "write",
                            ![p].computed =
                               UpdateServiceReviewStats(reviews, stats, s, NoFailure)[s]]
  /\ UNCHANGED <<reviews, stats>>
  /\ ReviewConcFrame

\* await Service.findByIdAndUpdate(serviceId, {rating: avg, reviewCount: count})
WriteStats(p) ==
  /\ procs[p].pc = "write"
  /\ stats' = [stats EXCEPT ![procs[p].serviceId] = procs[p].computed]
  /\ procs' = [procs EXCEPT ![p].pc = "done"]
  /\ UNCHANGED reviews
  /\ ReviewConcFrame

NextReviewConc ==
  \/ CreateBookingReviewConc
  \/ \E p \in Procs :
       \/ BeginCreateReview(p)
       \/ BeginUpdateReview(p)
       \/ BeginDeleteReview(p)
       \/ AggregateReviews(p)
       \/ WriteStats(p)

SpecReviewConc == InitReviewConc /\ [][NextReviewConc]_vars

----------------------------------------------------------------------------
(* Chats: createChat and postMessage *)

ChatOf(cs, bookingId) == {c \in cs : c.bookingId = bookingId}

\* createChat; the route admits admins, the handler also booking participants
CreateChatOp(st, req) ==
  LET Fail(status, message) == BookingOut(st, Response("createChat", status, message)) IN
  IF req.bookingId = Absent
    THEN Fail(400, "bookingId is required")
  ELSE IF req.bookingId \notin DOMAIN st.bookings
    THEN Fail(404, "Booking not found")
  ELSE
    LET booking == st.bookings[req.bookingId] IN
    IF req.user.type # "admin"
       /\ booking.customerId # req.user.id /\ booking.providerId # req.user.id
      THEN Fail(403, "You are not a participant of this booking")
    ELSE BookingOut([st EXCEPT !.chats = EnsureChat(st.chats, req.bookingId, booking)],
                    Response("createChat", 201, "ok"))

\* String.prototype.trim on a message, a sequence of characters
RECURSIVE TrimLeft(_)
TrimLeft(m) == IF m # <<>> /\ Head(m) = " " THEN TrimLeft(Tail(m)) ELSE m

RECURSIVE TrimRight(_)
TrimRight(m) ==
  IF m # <<>> /\ m[Len(m)] = " " THEN TrimRight(SubSeq(m, 1, Len(m) - 1)) ELSE m

Trim(m) == TrimRight(TrimLeft(m))

\* chat.isParticipant(userId)
isParticipant(chat, userId) == chat.customerId = userId \/ chat.providerId = userId

\* The role check of postMessage.  The second definition admits admins.
SenderTypeAllowed_WithAdmin(senderType) == senderType \in {"customer", "provider", "admin"}

SenderTypeAllowed(senderType) == senderType \in {"customer", "provider"}

ChatOut(cs, r) == [chats |-> cs, res |-> r]

\* MessageSchema.senderType: enum, checked by chat.save()
MessageSenderTypes == {"customer", "provider"}

PostMessageOp(cs, req, env) ==
  LET Fail(status, message) == ChatOut(cs, Response("postMessage", status, message)) IN
  IF \A c \in cs : c.id # req.id
    THEN Fail(404, "Chat not found")
  ELSE
    LET chat == CHOOSE c \in cs : c.id = req.id
        senderType == req.user.type
        message == Trim(req.message)
    IN
    IF ~SenderTypeAllowed(senderType)
      THEN Fail(403, "Forbidden")
    ELSE IF ~isParticipant(chat, req.user.id)
      THEN Fail(403, "Forbidden")
    ELSE IF message = <<>>
      THEN Fail(400, "Message is required")
    ELSE IF senderType \notin MessageSenderTypes \/ env.fail = "chatSave"
      THEN Fail(500, "Unable to send message")
    ELSE
      LET pushed == [chat EXCEPT !.messages =
                       Append(@, [senderId |-> req.user.id, senderType |-> senderType,
                                  content |-> message])]
      IN ChatOut((cs \ {chat}) \cup {pushed}, Response("postMessage", 201, "ok"))

(* Two bookings, their chats and the messages posted to them *)

MaxMessages == 2

AdminAsCustomer1 == [id |-> "c1", type |-> "admin"]

ChatBookingRequests ==
  {CreateRequest(Customer1, None, "s1", 15, 0, None, None),
   CreateRequest(Customer2, None, "s1", 15, 0, None, None)}

CreateChatRequests ==
  [user : {Customer1, Customer2, Admin}, bookingId : {Absent, 1, 2, GhostBooking}]

Messages == {<<>>, <<" ">>, <<"h">>, <<" ", "h", " ">>}

PostMessageRequests ==
  [user : {Customer1, Customer2, Provider1, Admin, AdminAsCustomer1},
   id : 1..3, message : Messages]

ChatFrame ==
  UNCHANGED <<balance, transactions, bookings, bookingCount, payments,
              reviews, stats, withdrawals, procs>>

CreateBookingChat == CreateBookingFrom(ChatBookingRequests, {"chatCreate"}, MaxBookings)

CreateChat == \E req \in CreateChatRequests : Commit(CreateChatOp(Store, req))

PostMessage ==
  \E req \in PostMessageRequests :
    LET out == PostMessageOp(chats, req, NoFailure) IN
    /\ \A c \in out.chats : Len(c.messages) <= MaxMessages
    /\ chats' = out.chats
    /\ res' = out.res
    /\ ChatFrame

NextChat == CreateBookingChat \/ CreateChat \/ PostMessage

SpecChat == InitBooking /\ [][NextChat]_vars

(* The chats of two bookings, edited by an admin *)

\* updateChat; the route admits admins only
UpdateChatOp(cs, req) ==
  LET Fail(status, message) == ChatOut(cs, Response("updateChat", status, message)) IN
  IF req.user.type # "admin"
    THEN Fail(403, "Forbidden")
  ELSE IF \A c \in cs : c.id # req.id
    THEN Fail(404, "Chat not found")
  ELSE
    LET chat == CHOOSE c \in cs : c.id = req.id
        touched == req.customerId # None \/ req.providerId # None
        doc == [chat EXCEPT
                  !.customerId = IF req.customerId # None THEN req.customerId ELSE @,
                  !.providerId = IF req.providerId # None THEN req.providerId ELSE @]
    IN
    IF ~touched
      THEN Fail(400, "No valid fields to update")
      ELSE ChatOut((cs \ {chat}) \cup {doc}, Response("updateChat", 200, "ok"))

UpdateChatRequests ==
  [user : {Admin, Customer1}, id : {1, 3},
   customerId : {None, "c2"}, providerId : {None, "c2"}]

UpdateChat ==
  \E req \in UpdateChatRequests :
    LET out == UpdateChatOp(chats, req) IN
    /\ chats' = out.chats
    /\ res' = out.res
    /\ ChatFrame

NextChatUpdate == CreateBookingChat \/ CreateChat \/ UpdateChat \/ PostMessage

SpecChatUpdate == InitBooking /\ [][NextChatUpdate]_vars

(* Concurrent find-or-create of chats: every request runs                  *)
(* ensureChatForBookingInternal as two steps, the findOne and the create,  *)
(* and the steps of different requests interleave.                         *)

NotFound == 0

IdleEnsure == [pc |-> "idle", bookingId |-> Absent, found |-> Unread, created |-> FALSE]

InitChatConc ==
  /\ transactions = <<>>
  /\ bookings = << >>
  /\ bookingCount = [s \in ServiceIds |-> 0]
  /\ payments = << >>
  /\ chats = {}
  /\ reviews = << >>
  /\ stats = [s \in ServiceIds |-> [rating |-> 0, reviewCount |-> 0]]
  /\ withdrawals = <<>>
  /\ res = InitRes
  /\ balance = [u \in Accounts |-> 0]
  /\ procs = [p \in Procs |-> IdleEnsure]

EnsureFrame ==
  UNCHANGED <<balance, transactions, bookingCount, payments, reviews, stats,
              withdrawals, res>>

\* createBooking up to Booking.create: the booking is stored and its chat
\* is provisioned by the steps that follow
BeginCreateBooking(p) ==
  /\ procs[p].pc = "idle"
  /\ Cardinality(DOMAIN bookings) < MaxBookings
  /\ \E req \in ChatBookingRequests :
       LET out == CreateBookingOp(Store, req, [fail |-> "chatCreate"]) IN
       /\ out.res.status = 201
       /\ bookings' = out.st.bookings
       /\ procs' = [procs EXCEPT ![p] = [IdleEnsure EXCEPT !.pc = "find",
                                          !.bookingId = NewBookingId(bookings)]]
  /\ UNCHANGED chats
  /\ EnsureFrame

\* createChat up to its call of ensureChatForBookingInternal
BeginCreateChat(p) ==
  /\ procs[p].pc = "idle"
  /\ \E req \in CreateChatRequests :
       /\ CreateChatOp(Store, req).res.status = 201
       /\ procs' = [procs EXCEPT ![p] = [IdleEnsure EXCEPT !.pc = "find",
                                          !.bookingId = req.bookingId]]
  /\ UNCHANGED <<bookings, chats>>
  /\ EnsureFrame

\* const existing = await ChatModel.findOne({bookingId}); if (existing) return existing
FindChat(p) ==
  /\ procs[p].pc = "find"
  /\ LET existing == ChatOf(chats, procs[p].bookingId) IN
     procs' = [procs EXCEPT ![p] =
                 IF existing = {}
                   THEN [@ EXCEPT !.pc = "create", !.found = NotFound]
                   ELSE [@ EXCEPT !.pc = "done",
                                  !.found = (CHOOSE c \in existing : TRUE).id]]
  /\ UNCHANGED <<bookings, chats>>
  /\ EnsureFrame

\* return ChatModel.create(payload)
CreateChatDoc(p) ==
  /\ procs[p].pc = "create"
  /\ LET b == procs[p].bookingId
         doc == ChatDoc(chats, b, bookings[b])
     IN /\ chats' = ChatCreate(chats, doc)
        /\ procs' = [procs EXCEPT ![p] = [@ EXCEPT !.pc = "done",
                                                   !.created = doc \in chats']]
  /\ UNCHANGED bookings
  /\ EnsureFrame

\* the response is sent; the next request may start
FinishEnsure(p) ==
  /\ procs[p].pc = "done"
  /\ procs' = [procs EXCEPT ![p] = IdleEnsure]
  /\ UNCHANGED <<bookings, chats>>
  /\ EnsureFrame

NextChatConc ==
  \E p \in Procs :
    \/ BeginCreateBooking(p)
    \/ BeginCreateChat(p)
    \/ FindChat(p)
    \/ CreateChatDoc(p)
    \/ FinishEnsure(p)

SpecChatConc == InitChatConc /\ [][NextChatConc]_vars

----------------------------------------------------------------------------
(* Withdrawals and the balance derived from the ledger *)

\* transactions.reduce(...): topup and refund add, payment and withdrawal
\* subtract, any other type counts for nothing
RECURSIVE DerivedBalance(_, _)
DerivedBalance(txs, userId) ==
  IF txs = <<>> THEN 0
  ELSE
    LET t == Head(txs)
        signed == IF t.customerId # userId THEN 0
                  ELSE IF t.type \in {"topup", "refund"} THEN t.amount
                  ELSE IF t.type \in {"payment", "withdrawal"} THEN -t.amount
                  ELSE 0
    IN signed + DerivedBalance(Tail(txs), userId)

WITHDRAWAL_STATUS_ENUM == {"pending", "completed", "failed"}

\* The lower limit of createWithdrawal: if (!amount || amount < 100)
BelowMinimum(amount) == amount = 0 \/ amount < 100

\* The balance check of createWithdrawal: if (balance < amount).  The first
\* definition never refuses.
InsufficientForWithdrawal_Off(bal, amount) == FALSE

InsufficientForWithdrawal(bal, amount) == bal < amount

WithdrawalStore == [withdrawals |-> withdrawals, transactions |-> transactions]

WithdrawalOut(st, r) == [st |-> st, res |-> r]

WithdrawalTx(userId, amount) ==
  Tx(userId, amount, "bank_transfer", "withdrawal", None, None, Absent,
     <<"withdrawal-label">>, Absent)

CreateWithdrawalOp(st, req, env) ==
  LET Fail(message) == WithdrawalOut(st, Response("createWithdrawal", 400, message))
      targetUserId == IF req.user.type = "admin" /\ req.userId # None
                        THEN req.userId ELSE req.user.id
      bal == DerivedBalance(st.transactions, targetUserId)
  IN
  IF BelowMinimum(req.amount)
    THEN Fail("Minimum withdrawal amount is 100")
  ELSE IF InsufficientForWithdrawal(bal, req.amount)
    THEN Fail("Insufficient balance for withdrawal")
  ELSE IF ~req.bankDetails \/ req.amount < 100 \/ env.fail = "withdrawalCreate"
    THEN Fail("Withdrawal.create failed")
  ELSE
    LET doc == [userId |-> targetUserId, amount |-> req.amount, status |-> "completed"]
        created == [st EXCEPT !.withdrawals = Append(@, doc)]
    IN
    IF ~ValidTransactionAmount(req.amount) \/ env.fail = "withdrawalTx"
      THEN WithdrawalOut(created, Response("createWithdrawal", 400, "Transaction.create failed"))
      ELSE WithdrawalOut([created EXCEPT !.transactions =
                            Append(@, WithdrawalTx(targetUserId, req.amount))],
                         Response("createWithdrawal", 201, "ok"))

UpdateWithdrawalOp(st, req, env) ==
  LET Fail(status, message) == WithdrawalOut(st, Response("updateWithdrawal", status, message)) IN
  IF req.id \notin 1..Len(st.withdrawals)
    THEN Fail(404, "Withdrawal not found")
  ELSE
    LET withdrawal == st.withdrawals[req.id] IN
    IF req.user.type # "admin" /\ withdrawal.userId # req.user.id
      THEN Fail(403, "Not authorized to update this withdrawal")
    ELSE
      LET setsStatus == req.status # None /\ req.user.type = "admin"
          records == setsStatus /\ req.status = "completed"
          st1 == IF records
                   THEN [st EXCEPT !.transactions =
                           Append(@, WithdrawalTx(withdrawal.userId, withdrawal.amount))]
                   ELSE st
      IN
      IF records /\ env.fail = "withdrawalTx"
        THEN Fail(400, "Transaction.create failed")
      ELSE IF (setsStatus /\ req.status \notin WITHDRAWAL_STATUS_ENUM)
              \/ env.fail = "withdrawalUpdate"
        THEN WithdrawalOut(st1, Response("updateWithdrawal", 400, "findByIdAndUpdate failed"))
      ELSE
        WithdrawalOut([st1 EXCEPT !.withdrawals[req.id].status =
                         IF setsStatus THEN req.status ELSE @],
                      Response("updateWithdrawal", 200, "ok"))

(* A provider earns from bookings and withdraws the earnings *)

MaxWithdrawals == 2

WithdrawalBookingRequests ==
  {CreateRequest(Customer1, None, "s1", t, 0, None, None) : t \in {112, 250}}

WithdrawalBookingUpdates ==
  {UpdateRequest(Customer1, 1, "completed", "paid", None, Absent, Absent, Absent),
   UpdateRequest(Provider1, 1, "cancelled", "refunded", None, Absent, Absent, Absent)}

WithdrawalAmounts == {0, 99, 100, 125, 226}

CreateWithdrawalRequests ==
  [user : {Provider1, Customer1}, userId : {None}, amount : WithdrawalAmounts,
   bankDetails : BOOLEAN]
  \cup [user : {Admin}, userId : {"p1"}, amount : {100, 226}, bankDetails : {TRUE}]

UpdateWithdrawalRequests ==
  [user : {Provider1, Customer1, Admin}, id : 1..MaxWithdrawals,
   status : WITHDRAWAL_STATUS_ENUM \cup {None, "bogus"}]

WithdrawalFrame ==
  UNCHANGED <<balance, bookings, bookingCount, payments, chats, reviews, stats, procs>>

WithdrawalCommit(out) ==
  /\ Len(out.st.transactions) <= MaxLedger
  /\ Len(out.st.withdrawals) <= MaxWithdrawals
  /\ withdrawals' = out.st.withdrawals
  /\ transactions' = out.st.transactions
  /\ res' = out.res
  /\ WithdrawalFrame

CreateBookingPaidOut == CreateBookingFrom(WithdrawalBookingRequests, {}, 1)

UpdateBookingPaidOut == UpdateBookingFrom(WithdrawalBookingUpdates, {})

CreateWithdrawal ==
  \E req \in CreateWithdrawalRequests :
    WithdrawalCommit(CreateWithdrawalOp(WithdrawalStore, req, NoFailure))

UpdateWithdrawal ==
  \E req \in UpdateWithdrawalRequests :
    WithdrawalCommit(UpdateWithdrawalOp(WithdrawalStore, req, NoFailure))

NextWithdrawal ==
  CreateBookingPaidOut \/ UpdateBookingPaidOut \/ CreateWithdrawal \/ UpdateWithdrawal

SpecWithdrawal == InitBooking /\ [][NextWithdrawal]_vars

----------------------------------------------------------------------------
(* Concurrent updateBooking requests on one booking.  A request runs       *)
(* between its awaits: Booking.findById and the field assignments, the     *)
(* Transaction.findOne for an existing earning, Transaction.create, the    *)
(* bookingCount sync, booking.save.                                        *)

IdleUpdate ==
  [pc |-> "idle", id |-> Absent, doc |-> <<>>, existingEarning |-> FALSE, status |-> 0]

InitBookingConc ==
  /\ transactions = <<>>
  /\ bookings = << >>
  /\ bookingCount = [s \in ServiceIds |-> 0]
  /\ payments = << >>
  /\ chats = {}
  /\ reviews = << >>
  /\ stats = [s \in ServiceIds |-> [rating |-> 0, reviewCount |-> 0]]
  /\ withdrawals = <<>>
  /\ res = InitRes
  /\ balance = [u \in Accounts |-> 0]
  /\ procs = [p \in Procs |-> IdleUpdate]

ConcCreateRequests ==
  {CreateRequest(Customer1, None, "s1", t, 0, None, None) : t \in {1, 15}}

ConcUpdateRequests ==
  {UpdateRequest(u, 1, "completed", "paid", None, Absent, Absent, Absent) :
     u \in {Customer1, Provider1}}

UpdateConcFrame == UNCHANGED <<balance, payments, chats, reviews, stats, withdrawals, res>>

\* createBooking, before the updates arrive
CreateBookingConc ==
  /\ Cardinality(DOMAIN bookings) < 1
  /\ \E req \in ConcCreateRequests :
       LET out == CreateBookingOp(Store, req, NoFailure) IN
       /\ bookings' = out.st.bookings
       /\ chats' = out.st.chats
       /\ res' = out.res
  /\ UNCHANGED <<balance, transactions, bookingCount, payments, reviews, stats,
                 withdrawals, procs>>

\* Booking.findById, the access check and the field assignments
BeginUpdate(p) ==
  /\ procs[p].pc = "idle"
  /\ \E req \in ConcUpdateRequests :
       /\ req.id \in DOMAIN bookings
       /\ canAccessBooking(bookings[req.id], req.user)
       /\ procs' = [procs EXCEPT ![p] =
                      [IdleUpdate EXCEPT !.pc = "lookup", !.id = req.id,
                                         !.doc = <<AssignFields(bookings[req.id], req)>>]]
  /\ UNCHANGED <<bookings, transactions, bookingCount>>
  /\ UpdateConcFrame

\* if (!existingEarning): the second definition creates the entry whatever
\* the lookup found.
CreatesEarning_Always(existingEarning) == TRUE

CreatesEarning(existingEarning) == ~existingEarning

\* const existingEarning = await Transaction.findOne({...})
LookupEarning(p) ==
  /\ procs[p].pc = "lookup"
  /\ procs' = [procs EXCEPT ![p].pc = "create",
                            ![p].existingEarning =
                               ExistingEarning(transactions, procs[p].doc[1])]
  /\ UNCHANGED <<bookings, transactions, bookingCount>>
  /\ UpdateConcFrame

\* await Transaction.create({... method: "earning", type: "topup" ...})
CreateEarning(p) ==
  /\ procs[p].pc = "create"
  /\ LET b == procs[p].doc[1]
         earningTx == Tx(b.providerId, ProviderEarning(b.totalAmount), "earning", "topup",
                         None, None, Absent, EarningNote(b.serviceName), procs[p].id)
     IN transactions' = IF CreatesEarning(procs[p].existingEarning)
                          THEN Append(transactions, earningTx)
                          ELSE transactions
  /\ procs' = [procs EXCEPT ![p].pc = "sync"]
  /\ UNCHANGED <<bookings, bookingCount>>
  /\ UpdateConcFrame

\* countDocuments on the stored bookings, service.save() when it differs
SyncBookingCount(p) ==
  /\ procs[p].pc = "sync"
  /\ LET s == procs[p].doc[1].serviceId IN
     bookingCount' = [bookingCount EXCEPT ![s] = CompletedBookingsCount(bookings, s)]
  /\ procs' = [procs EXCEPT ![p].pc = "save"]
  /\ UNCHANGED <<bookings, transactions>>
  /\ UpdateConcFrame

\* await booking.save() and the response
SaveBooking(p) ==
  /\ procs[p].pc = "save"
  /\ IF ValidBooking(procs[p].doc[1])
       THEN /\ bookings' = [bookings EXCEPT ![procs[p].id] = procs[p].doc[1]]
            /\ procs' = [procs EXCEPT ![p].pc = "done", ![p].status = 200]
       ELSE /\ UNCHANGED bookings
            /\ procs' = [procs EXCEPT ![p].pc = "done", ![p].status = 400]
  /\ UNCHANGED <<transactions, bookingCount>>
  /\ UpdateConcFrame

NextBookingConc ==
  \/ CreateBookingConc
  \/ \E p \in Procs :
       \/ BeginUpdate(p)
       \/ LookupEarning(p)
       \/ CreateEarning(p)
       \/ SyncBookingCount(p)
       \/ SaveBooking(p)

SpecBookingConc == InitBookingConc /\ [][NextBookingConc]_vars

----------------------------------------------------------------------------
(* Claims on the wallet engine, checked under SpecWallet *)

LastTx(txs) == txs[Len(txs)]

RECURSIVE SumBalances(_, _)
SumBalances(bal, us) ==
  IF us = {} THEN 0
  ELSE LET u == CHOOSE x \in us : TRUE IN bal[u] + SumBalances(bal, us \ {u})

\* C1: no account balance is ever below 0, and a debit or a payment whose
\* amount exceeds the payer's current balance is answered 400 "Insufficient
\* balance", changes no balance and records no transaction.
C1_BalanceNeverNegative ==
  /\ \A u \in Accounts : balance[u] >= 0
  /\ \A req \in WalletRequests, env \in PaymentEnvs :
       LET payer == TargetCustomer(req)
           pay == PaymentTransactionOp(balance, transactions, req, env)
           deb == PerformTransaction(balance, transactions, req, "debit", env)
       IN
       /\ ( /\ payer \in Accounts
            /\ req.providerId \in Accounts
            /\ req.amount > balance[payer] )
          => /\ pay.res = Response("payment", 400, "Insufficient balance")
             /\ pay.balance = balance
             /\ pay.transactions = transactions
       /\ (payer \in Accounts /\ req.amount > balance[payer])
          => /\ deb.res = Response("transaction", 400, "Insufficient balance")
             /\ deb.balance = balance
             /\ deb.transactions = transactions

\* A payment was refused for lack of funds by an account that holds some.
C1_Witness ==
  /\ res = Response("payment", 400, "Insufficient balance")
  /\ \E u \in Accounts : balance[u] > 0
  /\ Len(transactions) > 0

\* C6: a paymentTransaction between two different existing users is
\* all-or-nothing whatever write fails: either the customer is debited the
\* amount, the provider is credited the amount and one transaction record
\* is appended, or no balance and no record changes.
C6_PaymentAllOrNothing ==
  \A req \in WalletRequests, env \in PaymentEnvs :
    LET payer == TargetCustomer(req)
        payee == req.providerId
        out == PaymentTransactionOp(balance, transactions, req, env)
    IN
    (payer \in Accounts /\ payee \in Accounts /\ payer # payee) =>
      \/ out.balance = balance /\ out.transactions = transactions
      \/ /\ out.balance[payer] = balance[payer] - req.amount
         /\ out.balance[payee] = balance[payee] + req.amount
         /\ Len(out.transactions) = Len(transactions) + 1

\* C7: a successful paymentTransaction of amount a takes exactly a from the
\* customer and gives exactly a to the provider, keeps the total of all
\* balances, and records action=debit, the provider as counterparty and the
\* customer's new balance as balanceAfter.
C7_PaymentMovesExactAmount ==
  [][(res'.op = "payment" /\ res'.status = 201) =>
       /\ Len(transactions') = Len(transactions) + 1
       /\ LET t == LastTx(transactions') IN
          /\ balance'[t.customerId] = balance[t.customerId] - t.amount
          /\ balance'[t.providerId] = balance[t.providerId] + t.amount
          /\ SumBalances(balance', Accounts) = SumBalances(balance, Accounts)
          /\ t.action = "debit"
          /\ t.providerId # None
          /\ t.balanceAfter = balance'[t.customerId]]_vars

----------------------------------------------------------------------------
(* Claims on concurrent payments, checked under SpecWalletConc *)

RECURSIVE SumSeq(_)
SumSeq(s) == IF s = <<>> THEN 0 ELSE Head(s) + SumSeq(Tail(s))

AmountsOf(txs) == [i \in 1..Len(txs) |-> txs[i].amount]

Debited(u) ==
  LET keep(t) == t.customerId = u /\ t.action = "debit"
  IN SumSeq(AmountsOf(SelectSeq(transactions, keep)))

Received(u) ==
  LET keep(t) == t.providerId = u
  IN SumSeq(AmountsOf(SelectSeq(transactions, keep)))

\* C5: once the concurrent payment requests have all been answered, the
\* successful payments out of an account add up to no more than the funds
\* it held: its starting balance plus the payments it received.
C5_DebitsWithinFunds ==
  (\A p \in Procs : procs[p].pc = "done") =>
     \A u \in Accounts : Debited(u) <= StartBalance + Received(u)

----------------------------------------------------------------------------
(* Claims on updateBooking *)

\* the ledger entries that updateBooking calls for booking id created with
\* the given method
EntriesFor(txs, id, method) ==
  LET keep(t) == t.forBooking = id /\ t.method = method IN SelectSeq(txs, keep)

\* what a call appended to the ledger
Appended(before, after) == SubSeq(after, Len(before) + 1, Len(after))

SumOf(txs, method) ==
  LET keep(t) == t.method = method IN SumSeq(AmountsOf(SelectSeq(txs, keep)))

CancelRefundRequests ==
  {req \in LedgerUpdateRequests :
     /\ req.status = "cancelled"
     /\ req.paymentStatus \in {"refunded", "partially_refunded"}}

CompletePaidRequests ==
  {req \in LedgerUpdateRequests : req.status = "completed" /\ req.paymentStatus = "paid"}

\* C2: the same request {status: cancelled, paymentStatus: refunded or
\* partially_refunded} applied twice in a row to a booking leaves the ledger
\* after the second call as it was after the first; a booking that had no
\* refund yet then has at most one refund and at most one compensation
\* entry, and one refund entry when the refund due is positive.
C2_CancelRefundIdempotent ==
  \A req \in CancelRefundRequests :
    LET first == UpdateBookingOp(Store, req, NoFailure)
        second == UpdateBookingOp(first.st, req, NoFailure)
        refunds == Len(EntriesFor(second.st.transactions, req.id, "refund"))
        compensations == Len(EntriesFor(second.st.transactions, req.id, "compensation"))
    IN
    (first.res.status = 200) =>
      /\ second.res.status = 200
      /\ second.st.transactions = first.st.transactions
      /\ ( /\ EntriesFor(transactions, req.id, "refund") = <<>>
           /\ EntriesFor(transactions, req.id, "compensation") = <<>> )
         => /\ refunds <= 1
            /\ compensations <= 1
            /\ first.st.bookings[req.id].refundAmount > 0 => refunds = 1

\* C3: the request {status: completed, paymentStatus: paid} applied twice in
\* a row to a booking that has no earning entry yet creates exactly one
\* earning entry; the second call adds nothing to the ledger.
C3_CompletePaidIdempotent ==
  \A req \in CompletePaidRequests :
    LET first == UpdateBookingOp(Store, req, NoFailure)
        second == UpdateBookingOp(first.st, req, NoFailure)
    IN
    (first.res.status = 200 /\ EntriesFor(transactions, req.id, "earning") = <<>>) =>
      /\ second.st.transactions = first.st.transactions
      /\ Len(EntriesFor(second.st.transactions, req.id, "earning")) = 1

\* C4: every booking that has been updated to status=completed with
\* paymentStatus=paid has exactly one earning entry of its own in the
\* ledger, also when several bookings of the provider share a serviceName.
C4_OneEarningPerBooking ==
  \A id \in DOMAIN bookings :
    (bookings[id].status = "completed" /\ bookings[id].paymentStatus = "paid") =>
      Len(EntriesFor(transactions, id, "earning")) = 1

RefundPolicyRuns(old, doc) ==
  /\ doc.status = "cancelled"
  /\ doc.cancelledBy # None
  /\ doc.paymentStatus \in {"refunded", "partially_refunded"}
  /\ ~(old.refundAmount # Unset /\ old.refundAmount > 0)

\* C8: a successful updateBooking that runs the refund policy credits the
\* customer totalAmount and the provider nothing when the provider
\* cancelled, and credits the customer floor(totalAmount / 2) and the
\* provider the rest when the customer cancelled; either way the two
\* credits add up to totalAmount, and an update that does not run the
\* policy credits neither.
C8_RefundSplit ==
  /\ RefundSplit(1000, "provider") = [refund |-> 1000, compensation |-> 0]
  /\ RefundSplit(1001, "customer") = [refund |-> 500, compensation |-> 501]
  /\ \A req \in LedgerUpdateRequests :
       LET out == UpdateBookingOp(Store, req, NoFailure)
           new == Appended(transactions, out.st.transactions)
           refunded == SumOf(new, "refund")
           compensated == SumOf(new, "compensation")
       IN
       (req.id \in DOMAIN bookings /\ out.res.status = 200) =>
         LET doc == out.st.bookings[req.id]
             total == doc.totalAmount
         IN
         IF RefundPolicyRuns(bookings[req.id], doc)
           THEN /\ doc.cancelledBy = "provider" =>
                     refunded = total /\ compensated = 0
                /\ doc.cancelledBy = "customer" =>
                     2 * refunded <= total /\ total < 2 * refunded + 2
                     /\ compensated = total - refunded
                /\ refunded + compensated = total
                /\ doc.refundAmount = refunded
                /\ \A i \in 1..Len(new) :
                     new[i].customerId = IF new[i].method = "refund"
                                           THEN doc.customerId ELSE doc.providerId
           ELSE refunded = 0 /\ compensated = 0

\* A customer cancelled a booking of 15: 7 went back to the customer and 8
\* to the provider.
C8_Witness ==
  /\ res = Response("updateBooking", 200, "ok")
  /\ 1 \in DOMAIN bookings
  /\ bookings[1].status = "cancelled"
  /\ bookings[1].cancelledBy = "customer"
  /\ bookings[1].totalAmount = 15
  /\ SumOf(EntriesFor(transactions, 1, "refund"), "refund") = 7
  /\ SumOf(EntriesFor(transactions, 1, "compensation"), "compensation") = 8

\* C9: the earning that a successful updateBooking credits for a booking
\* that becomes completed and paid is totalAmount minus the commission
\* floor(totalAmount / 10): it is the commission that is rounded down.
C9_ProviderEarning ==
  /\ ProviderEarning(1500) = 1350
  /\ \A req \in LedgerUpdateRequests :
       LET out == UpdateBookingOp(Store, req, NoFailure)
           new == Appended(transactions, out.st.transactions)
           earnings == EntriesFor(new, req.id, "earning")
       IN
       (req.id \in DOMAIN bookings /\ out.res.status = 200) =>
         LET doc == out.st.bookings[req.id]
             total == doc.totalAmount
         IN
         /\ \A i \in 1..Len(earnings) :
              /\ 10 * (total - earnings[i].amount) <= total
              /\ total < 10 * (total - earnings[i].amount) + 10
              /\ earnings[i].customerId = doc.providerId
         /\ ( /\ doc.status = "completed"
              /\ doc.paymentStatus = "paid"
              /\ ~ExistingEarning(transactions, doc) )
            => Len(earnings) = 1

\* The provider of a completed and paid booking of 15 was credited 14.
C9_Witness ==
  /\ res = Response("updateBooking", 200, "ok")
  /\ 1 \in DOMAIN bookings
  /\ bookings[1].status = "completed"
  /\ bookings[1].paymentStatus = "paid"
  /\ bookings[1].totalAmount = 15
  /\ \E i \in 1..Len(transactions) :
       /\ transactions[i].method = "earning"
       /\ transactions[i].amount = 14
       /\ transactions[i].customerId = "p1"

\* C10: every stored booking has depositAmount <= totalAmount; a create or
\* update request whose resulting document would have depositAmount >
\* totalAmount is answered 400 (500 when a write fails first) and leaves the
\* Booking collection as it was.
C10_DepositWithinTotal ==
  /\ \A id \in DOMAIN bookings : bookings[id].depositAmount <= bookings[id].totalAmount
  /\ \A req \in FieldUpdateRequests, env \in [fail : FieldFailures \cup {"none"}] :
       LET out == UpdateBookingOp(Store, req, env) IN
       ( /\ req.id \in DOMAIN bookings
         /\ canAccessBooking(bookings[req.id], req.user)
         /\ LET doc == AssignFields(bookings[req.id], req)
            IN doc.depositAmount > doc.totalAmount )
       => /\ out.res.status \in {400, 500}
          /\ env = NoFailure => out.res.status = 400
          /\ ( /\ env = NoFailure
               /\ req.status \in STATUS_ENUM \cup {None}
               /\ req.paymentStatus \in PAYMENT_STATUS_ENUM \cup {None} )
             => out.res.message = "Validation failed"
          /\ out.st.bookings = bookings
  /\ \A req \in FieldCreateRequests :
       LET out == CreateBookingOp(Store, req, NoFailure) IN
       (req.totalAmount # Absent /\ req.depositAmount > req.totalAmount) =>
         /\ out.res = Response("createBooking", 400, "Validation failed")
         /\ out.st.bookings = bookings

\* An update was refused as a validation failure for a stored booking
\* whose deposit equals its total, so that lowering the total alone or
\* raising the deposit alone is such a request.
C10_Witness ==
  /\ res = Response("updateBooking", 400, "Validation failed")
  /\ 1 \in DOMAIN bookings
  /\ bookings[1].depositAmount = 1
  /\ bookings[1].totalAmount = 1
  /\ bookings[1].status = "pending"

----------------------------------------------------------------------------
(* Claims on reviews, checked under SpecReview *)

ReviewsOf(serviceId) == {id \in DOMAIN reviews : reviews[id].serviceId = serviceId}

C12_OneReviewPerPair ==
  /\ \A a \in DOMAIN reviews, b \in DOMAIN reviews :
       ( /\ reviews[a].serviceId = reviews[b].serviceId
         /\ reviews[a].customerId = reviews[b].customerId ) => a = b
  /\ \A req \in ReviewCreateRequests :
       LET out == CreateReviewOp(ReviewStore, req, NoFailure) IN
       ( /\ req.user.type \in {"customer", "admin"}
         /\ req.bookingId \in DOMAIN bookings
         /\ bookings[req.bookingId].serviceId = req.serviceId
         /\ req.user.type = "customer" => bookings[req.bookingId].customerId = req.user.id
         /\ req.customerId \in {None, bookings[req.bookingId].customerId}
         /\ req.rating \in 0..5
         /\ \E id \in DOMAIN reviews :
              /\ reviews[id].serviceId = req.serviceId
              /\ reviews[id].customerId = bookings[req.bookingId].customerId )
       => /\ out.res = Response("createReview", 409, "You have already reviewed this service")
          /\ out.st.reviews = reviews
          /\ out.st.stats = stats

\* A customer with two bookings of the same service reviewed it once and
\* was refused the second review.
C12_Witness ==
  /\ res = Response("createReview", 409, "You have already reviewed this service")
  /\ \E a \in DOMAIN bookings, b \in DOMAIN bookings :
       /\ a # b
       /\ bookings[a].customerId = bookings[b].customerId
       /\ bookings[a].serviceId = bookings[b].serviceId
       /\ \E id \in DOMAIN reviews : reviews[id].customerId = bookings[a].customerId
  /\ stats["s1"].reviewCount = Cardinality(DOMAIN reviews)

----------------------------------------------------------------------------
(* Claims on chats *)

\* C13: postMessage changes the chats only by appending one message, signed
\* with the caller's id and role, to the chat it names, and only for a
\* caller whose role is customer or provider and who is the chat's customer
\* or provider; a caller who is no participant and every caller with role
\* admin, one with a participant's id included, is answered 403 Forbidden
\* with the chats unchanged.  Every stored message is of a participant.
C13_PostMessageGate ==
  /\ \A c \in chats : \A i \in 1..Len(c.messages) :
       /\ c.messages[i].senderType \in {"customer", "provider"}
       /\ c.messages[i].senderId \in {c.customerId, c.providerId}
  /\ \A req \in PostMessageRequests : \A c \in chats :
       LET out == PostMessageOp(chats, req, NoFailure) IN
       (c.id = req.id) =>
         /\ ( \/ req.user.type \notin {"customer", "provider"}
              \/ req.user.id \notin {c.customerId, c.providerId} )
            => /\ out.res = Response("postMessage", 403, "Forbidden")
               /\ out.chats = chats
         /\ out.chats # chats =>
              /\ req.user.type \in {"customer", "provider"}
              /\ req.user.id \in {c.customerId, c.providerId}
              /\ out.res.status = 201
              /\ \E m \in [senderId : {req.user.id}, senderType : {req.user.type},
                           content : {<<"h">>}] :
                   out.chats = (chats \ {c}) \cup {[c EXCEPT !.messages = Append(@, m)]}

\* A chat holds a message of each participant and the last post was
\* refused.
C13_Witness ==
  /\ res = Response("postMessage", 403, "Forbidden")
  /\ \E c \in chats :
       /\ Len(c.messages) = 2
       /\ c.messages[1].senderType # c.messages[2].senderType

\* C14: whatever the interleaving of the chat provisioning of
\* createBooking and of createChat requests, no booking has more than one
\* chat; ensureChatForBooking on a booking that has a chat creates nothing,
\* and a request whose lookup found a chat ends with that chat of its
\* booking and has created none.
C14_OneChatPerBooking ==
  /\ \A b \in DOMAIN bookings : Cardinality(ChatOf(chats, b)) <= 1
  /\ \A c \in chats : c.bookingId \in DOMAIN bookings
  /\ \A b \in DOMAIN bookings :
       ChatOf(chats, b) # {} => EnsureChat(chats, b, bookings[b]) = chats
  /\ \A p \in Procs :
       (procs[p].pc = "done" /\ procs[p].found # NotFound) =>
         /\ ~procs[p].created
         /\ \E c \in ChatOf(chats, procs[p].bookingId) : c.id = procs[p].found

\* Two requests for the same booking both found no chat; one created it
\* and the insert of the other was refused.
C14_Witness ==
  /\ \A p \in Procs : procs[p].pc = "done" /\ procs[p].found = NotFound
  /\ \E p \in Procs, q \in Procs :
       /\ procs[p].bookingId = procs[q].bookingId
       /\ procs[p].created
       /\ ~procs[q].created

----------------------------------------------------------------------------
(* Claims on withdrawals, checked under SpecWithdrawal *)

TargetUser(req) ==
  IF req.user.type = "admin" /\ req.userId # None THEN req.userId ELSE req.user.id

C16_DerivedBalanceNeverNegative ==
  \A u \in {"c1", "p1"} : DerivedBalance(transactions, u) >= 0

----------------------------------------------------------------------------
(* Claims on failing writes of updateBooking *)

\* C17: when the refund, compensation or earning Transaction.create of an
\* updateBooking fails, the request is answered with an error and the
\* stored booking is what it was before the request: its status,
\* paymentStatus, cancelledBy and refundAmount are unchanged.
C17_LedgerFailureFailsUpdate ==
  \A req \in FailingUpdateRequests, f \in LedgerFailures :
    LET out == UpdateBookingOp(Store, req, [fail |-> f])
        ok == UpdateBookingOp(Store, req, NoFailure)
    IN
    out # ok =>
      /\ out.res.status >= 400
      /\ out.st.bookings = bookings

\* The customer's cancellation was answered 500 after the refund was
\* written and the compensation failed; the booking is still pending.
C17_Witness ==
  /\ res = Response("updateBooking", 500, "Server error")
  /\ 1 \in DOMAIN bookings
  /\ bookings[1].status = "pending"
  /\ bookings[1].cancelledBy = None
  /\ bookings[1].refundAmount = Unset
  /\ Len(transactions) = 1
  /\ transactions[1].method = "refund"

\* C18: an updateBooking that is answered with an error, no write of it
\* having failed, has added no transaction and has changed no Payment and
\* no Service record.
C18_ErrorLeavesNoTrace ==
  \A req \in FieldUpdateRequests :
    LET out == UpdateBookingOp(Store, req, NoFailure) IN
    out.res.status >= 400 =>
      /\ out.st.transactions = transactions
      /\ out.st.payments = payments
      /\ out.st.bookingCount = bookingCount

----------------------------------------------------------------------------
(* Claims on the money a booking gives out, checked under SpecBooking *)

\* refund, compensation and earning entries that updateBooking created for
\* booking id, added up
CreditedFor(txs, id) ==
  LET keep(t) == t.forBooking = id /\ t.method \in {"refund", "compensation", "earning"}
  IN SumSeq(AmountsOf(SelectSeq(txs, keep)))

\* C19: for a booking of service s1, the refund, compensation and earning
\* entries created on its behalf add up to at most its totalAmount.
C19_CreditedWithinTotal ==
  \A id \in DOMAIN bookings :
    bookings[id].serviceId = "s1" =>
      CreditedFor(transactions, id) <= bookings[id].totalAmount

\* C20: on a booking that has just been created, and so was never paid, an
\* updateBooking that sets status cancelled with paymentStatus refunded or
\* partially_refunded adds nothing to the ledger.
C20_RefundOnlyIfPaid ==
  \A req \in CancelRefundRequests :
    ( /\ res = Response("createBooking", 201, "ok")
      /\ req.id \in DOMAIN bookings
      /\ bookings[req.id].paymentStatus # "paid" ) =>
        UpdateBookingOp(Store, req, NoFailure).st.transactions = transactions

----------------------------------------------------------------------------
(* Claims on the fields of a stored booking *)

\* C21: when an updateBooking that moves a booking into completed with
\* paymentStatus paid has been answered 200, the bookingCount of its
\* service is the number of stored bookings of that service whose status
\* is completed.
C21_BookingCountIsCompletedCount ==
  \A req \in CompletePaidRequests :
    LET out == UpdateBookingOp(Store, req, NoFailure) IN
    ( /\ req.id \in DOMAIN bookings
      /\ bookings[req.id].status # "completed"
      /\ out.res.status = 200 ) =>
        LET s == bookings[req.id].serviceId IN
        out.st.bookingCount[s] = CompletedBookingsCount(out.st.bookings, s)

\* pending -> confirmed -> completed, or a move into cancelled; completed
\* and cancelled are final
LifecycleAllows(from, to) ==
  \/ from = to
  \/ /\ from \notin {"completed", "cancelled"}
     /\ \/ to = "cancelled"
        \/ from = "pending" /\ to \in {"confirmed", "completed"}
        \/ from = "confirmed" /\ to = "completed"

\* C22: an updateBooking that is answered 200 leaves the stored status
\* where it was or moves it along pending -> confirmed -> completed or into
\* cancelled, never backwards and never out of completed or cancelled.
C22_StatusFollowsLifecycle ==
  \A req \in LedgerUpdateRequests :
    LET out == UpdateBookingOp(Store, req, NoFailure) IN
    (req.id \in DOMAIN bookings /\ out.res.status = 200) =>
      LifecycleAllows(bookings[req.id].status, out.st.bookings[req.id].status)

\* C23: once a stored booking has refundAmount > 0, an updateBooking that
\* is answered 200 leaves refundAmount as it is and adds no refund entry.
C23_RefundAmountSetOnce ==
  \A req \in RefundUpdateRequests :
    LET out == UpdateBookingOp(Store, req, NoFailure) IN
    ( /\ req.id \in DOMAIN bookings
      /\ bookings[req.id].refundAmount > 0
      /\ out.res.status = 200 ) =>
        /\ out.st.bookings[req.id].refundAmount = bookings[req.id].refundAmount
        /\ EntriesFor(out.st.transactions, req.id, "refund") =
             EntriesFor(transactions, req.id, "refund")

----------------------------------------------------------------------------
(* Claims on concurrent updateBooking requests, under SpecBookingConc *)

\* C24: once the concurrent updateBooking requests {status: completed,
\* paymentStatus: paid} on a booking have all been answered, the booking
\* has one earning entry for every request whose lookup found no earning:
\* two requests that both looked before either created leave two entries.
C24_EarningPerBlindLookup ==
  (\A p \in Procs : procs[p].pc = "done") =>
     Len(EntriesFor(transactions, 1, "earning")) =
       Cardinality({p \in Procs : ~procs[p].existingEarning})

\* Both requests were answered 200, neither lookup found an earning, and
\* the provider was credited twice for the one booking.
C24_Witness ==
  /\ \A p \in Procs : procs[p].pc = "done" /\ procs[p].status = 200
  /\ \A p \in Procs : ~procs[p].existingEarning
  /\ Len(EntriesFor(transactions, 1, "earning")) = 2
  /\ bookings[1].status = "completed"

----------------------------------------------------------------------------
(* Claims on the wallet ledger, under SpecWallet *)

RECURSIVE SignedSumFor(_, _)
\* the records stored for account u, credits added and debits subtracted
SignedSumFor(txs, u) ==
  IF txs = <<>> THEN 0
  ELSE LET t == Head(txs)
           signed == IF t.customerId # u THEN 0
                     ELSE IF t.action = "debit" THEN 0 - t.amount ELSE t.amount
       IN signed + SignedSumFor(Tail(txs), u)

\* C25: a createTransaction, or a paymentTransaction between two different
\* users, that is answered 201 with every write landing changes the
\* balance of each account by the action-signed sum of the records it
\* stored for that account.
C25_BalanceFollowsLedger ==
  \A req \in WalletRequests :
    LET credit == CreateTransactionOp(balance, transactions, req, NoFail)
        pay == PaymentTransactionOp(balance, transactions, req, NoFail)
    IN
    /\ credit.res.status = 201 =>
         \A u \in Accounts :
           credit.balance[u] - balance[u] =
             SignedSumFor(Appended(transactions, credit.transactions), u)
    /\ (pay.res.status = 201 /\ TargetCustomer(req) # req.providerId) =>
         \A u \in Accounts :
           pay.balance[u] - balance[u] =
             SignedSumFor(Appended(transactions, pay.transactions), u)

----------------------------------------------------------------------------
(* Claims on concurrent review requests, under SpecReviewConc *)

\* C26: once the concurrent createReview, updateReview and deleteReview
\* requests on service s1 have all finished, the rating and reviewCount of
\* s1 are the rounded mean and the count of the reviews then stored.
C26_StatsMatchAfterConcurrentReviews ==
  (\A p \in Procs : procs[p].pc = "done") =>
     stats["s1"] = UpdateServiceReviewStats(reviews, stats, "s1", NoFailure)["s1"]

\* C27: in every stored booking cancelledBy is set only while the status
\* is cancelled; an updateBooking answered 200 that sets status cancelled
\* stores cancelledBy customer or provider, and one that sets any other
\* status stores no cancelledBy.
C27_CancelledByOnlyWhileCancelled ==
  /\ \A id \in DOMAIN bookings :
       bookings[id].cancelledBy # None => bookings[id].status = "cancelled"
  /\ \A req \in LedgerUpdateRequests :
       LET out == UpdateBookingOp(Store, req, NoFailure) IN
       (out.res.status = 200 /\ req.status # None) =>
         LET stored == out.st.bookings[req.id] IN
         IF req.status = "cancelled"
           THEN stored.cancelledBy \in CANCELLED_BY_ENUM
           ELSE stored.cancelledBy = None

\* The booking was cancelled by the provider and then confirmed again:
\* cancelledBy is cleared although a refund was paid.
C27_Witness ==
  /\ res = Response("updateBooking", 200, "ok")
  /\ 1 \in DOMAIN bookings
  /\ bookings[1].status = "confirmed"
  /\ bookings[1].cancelledBy = None
  /\ bookings[1].refundAmount > 0

\* C28: an updateBooking of an existing booking by its customer whose
\* status or paymentStatus is outside its enum is answered 400 "Invalid
\* status value" or "Invalid paymentStatus value"; the stored bookings
\* (the amounts sent in the same request included), the ledger, the
\* payments and the booking counts are unchanged.
C28_InvalidEnumRejected ==
  \A req \in FieldUpdateRequests :
    LET out == UpdateBookingOp(Store, req, NoFailure)
        badStatus == req.status # None /\ req.status \notin STATUS_ENUM
        badPayment == req.paymentStatus # None /\ req.paymentStatus \notin PAYMENT_STATUS_ENUM
    IN
    ( /\ req.id \in DOMAIN bookings
      /\ req.user = Customer1
      /\ badStatus \/ badPayment ) =>
        /\ out.res.status = 400
        /\ out.res.message = IF badStatus THEN "Invalid status value"
                             ELSE "Invalid paymentStatus value"
        /\ out.st = Store

\* A request with paymentStatus "bogus" was refused on a booking that has
\* been completed and paid.
C28_Witness ==
  /\ res = Response("updateBooking", 400, "Invalid paymentStatus value")
  /\ 1 \in DOMAIN bookings
  /\ bookings[1].status = "completed"
  /\ Len(transactions) = 1

----------------------------------------------------------------------------
(* Claims on the participants of a chat, under SpecChatUpdate *)

\* C29: the customerId and providerId of every chat are those of the
\* booking its bookingId names.
C29_ChatParticipantsAreBookingParticipants ==
  \A c \in chats :
    /\ c.bookingId \in DOMAIN bookings
    /\ c.customerId = bookings[c.bookingId].customerId
    /\ c.providerId = bookings[c.bookingId].providerId

----------------------------------------------------------------------------
(* Claims on the identity of a booking, under SpecBookingBody *)

\* C30: the providerId and serviceName of every stored booking are those
\* of its service, and an updateBooking whose body names providerId,
\* customerId, serviceId and serviceName leaves these four fields of the
\* stored booking as they were.
C30_BookingIdentityImmutable ==
  /\ \A id \in DOMAIN bookings :
       /\ bookings[id].providerId = Services[bookings[id].serviceId].providerId
       /\ bookings[id].serviceName = Services[bookings[id].serviceId].name
  /\ \A req \in BodyUpdateRequests :
       LET out == UpdateBookingOp(Store, req, NoFailure) IN
       req.id \in DOMAIN bookings =>
         LET before == bookings[req.id]
             after == out.st.bookings[req.id]
         IN /\ after.providerId = before.providerId
            /\ after.customerId = before.customerId
            /\ after.serviceId = before.serviceId
            /\ after.serviceName = before.serviceName

\* The booking of c1 on s1 was confirmed by a request whose body named
\* another provider, customer and service.
C30_Witness ==
  /\ res = Response("updateBooking", 200, "ok")
  /\ 1 \in DOMAIN bookings
  /\ bookings[1].status = "confirmed"
  /\ bookings[1].providerId = "p1"
  /\ bookings[1].customerId = "c1"
  /\ bookings[1].serviceId = "s1"

====
